---- MODULE Spec2Model ----
(***************************************************************************)
(* Model of ieee754toy (NumericalParser.h, IEEE754.h) instantiated for the *)
(* `double` traits: Mantissa = uint64_t, Exponent = int32_t,               *)
(* ReducedMantissa = __uint128_t, mantissaBits = 52, exponentBits = 11.    *)
(*                                                                         *)
(* Unsigned values wider than 31 bits are kept as little-endian sequences  *)
(* of 16-bit limbs without trailing zero limbs (<<>> is 0).  Exponent      *)
(* values are plain integers in the int32_t range; every Exponent          *)
(* operation that could leave that range is tested before it is computed.  *)
(***************************************************************************)
EXTENDS Integers, Sequences, FiniteSets, TLC

VARIABLES
    input,      \* the span of characters the parser was constructed on
    pc,         \* position of the control flow (function and loop)
    pm,         \* locals of parseMantissa
    result,     \* parseMantissaExponent's `result` = parseMantissa's return
    pe,         \* locals and return value of parseExponent
    number,     \* toAnyDouble's [parsed, number] = parseMantissaExponent()
    cv,         \* locals of convertTwobase
    binary,     \* the IEEE754Number<N, 2> returned by convertTwobase
    out,        \* toAnyDouble's outputs: the error flag and the returned bits
    ub          \* the functions in which a signed Exponent operation overflowed

vars == <<input, pc, pm, result, pe, number, cv, binary, out, ub>>

-----------------------------------------------------------------------------
(* Natural numbers as sequences of limbs.                                  *)

LimbBase == 2 ^ 16

\* The operations go through the limbs by halving the range of limbs, the
\* carry of the lower half entering the upper one.

\* the highest index in lo..hi of a limb of a that is not 0, and 0 if none
RECURSIVE BigTopLimb(_, _, _)
BigTopLimb(a, lo, hi) ==
    IF lo > hi THEN 0
    ELSE IF lo = hi THEN (IF a[lo] # 0 THEN lo ELSE 0)
    ELSE LET mid == (lo + hi) \div 2
             upper == BigTopLimb(a, mid + 1, hi)
         IN  IF upper # 0 THEN upper ELSE BigTopLimb(a, lo, mid)

\* a without its leading zero limbs
BigNorm(a) ==
    IF a = <<>> \/ a[Len(a)] # 0 THEN a ELSE SubSeq(a, 1, BigTopLimb(a, 1, Len(a)))

RECURSIVE BigFromInt(_)
BigFromInt(n) ==
    IF n = 0 THEN <<>> ELSE <<n % LimbBase>> \o BigFromInt(n \div LimbBase)

\* the limbs lo..hi of a * k + carry, and the carry out of them
RECURSIVE BigMulAddRange(_, _, _, _, _)
BigMulAddRange(a, k, lo, hi, carry) ==
    IF lo > hi THEN [s |-> <<>>, c |-> carry]
    ELSE IF lo = hi
    THEN [s |-> <<(a[lo] * k + carry) % LimbBase>>, c |-> (a[lo] * k + carry) \div LimbBase]
    ELSE LET mid == (lo + hi) \div 2
             lower == BigMulAddRange(a, k, lo, mid, carry)
             upper == BigMulAddRange(a, k, mid + 1, hi, lower.c)
         IN  [s |-> lower.s \o upper.s, c |-> upper.c]

\* a * k + c for 0 <= k <= 2^15 and 0 <= c < 2^15
BigMulAdd(a, k, c) ==
    LET m == BigMulAddRange(a, k, 1, Len(a), c)
    IN  BigNorm(m.s \o BigFromInt(m.c))
BigMulSmall(a, k) == BigMulAdd(a, k, 0)
BigAddSmall(a, c) == BigMulAdd(a, 1, c)

\* the limbs low with the limbs high above them
BigJoin(high, low) == IF high = <<>> THEN low ELSE low \o high

\* the limbs lo..hi of the quotient of a by k, rem being the remainder of
\* the limbs above hi, and the remainder left below lo
RECURSIVE BigDivRange(_, _, _, _, _)
BigDivRange(a, k, lo, hi, rem) ==
    IF lo > hi THEN [s |-> <<>>, r |-> rem]
    ELSE IF lo = hi
    THEN [s |-> <<(rem * LimbBase + a[lo]) \div k>>, r |-> (rem * LimbBase + a[lo]) % k]
    ELSE LET mid == (lo + hi) \div 2
             upper == BigDivRange(a, k, mid + 1, hi, rem)
             lower == BigDivRange(a, k, lo, mid, upper.r)
         IN  [s |-> BigJoin(upper.s, lower.s), r |-> lower.r]

\* quotient and remainder of a by 0 < k <= 2^15
BigDivMod(a, k) ==
    LET d == BigDivRange(a, k, 1, Len(a), 0)
    IN  [q |-> BigNorm(d.s), r |-> d.r]
BigDivSmall(a, k) == BigDivMod(a, k).q
BigModSmall(a, k) == BigDivMod(a, k).r

\* -1, 0, 1 as the limbs lo..hi of a are below, equal to or above those of b
RECURSIVE BigCompareRange(_, _, _, _)
BigCompareRange(a, b, lo, hi) ==
    IF lo > hi THEN 0
    ELSE IF lo = hi
    THEN (IF a[lo] < b[lo] THEN -1 ELSE IF a[lo] > b[lo] THEN 1 ELSE 0)
    ELSE LET mid == (lo + hi) \div 2
             upper == BigCompareRange(a, b, mid + 1, hi)
         IN  IF upper # 0 THEN upper ELSE BigCompareRange(a, b, lo, mid)

BigLess(a, b) ==
    IF Len(a) # Len(b) THEN Len(a) < Len(b) ELSE BigCompareRange(a, b, 1, Len(a)) = -1
BigLeq(a, b) == ~BigLess(b, a)

BigLimb(a, idx) == IF idx <= Len(a) THEN a[idx] ELSE 0
BigMaxLen(a, b) == IF Len(a) > Len(b) THEN Len(a) ELSE Len(b)

\* the limbs lo..hi of a + b + carry, and the carry out of them
RECURSIVE BigAddRange(_, _, _, _, _)
BigAddRange(a, b, lo, hi, carry) ==
    IF lo > hi THEN [s |-> <<>>, c |-> carry]
    ELSE IF lo = hi
    THEN LET t == BigLimb(a, lo) + BigLimb(b, lo) + carry
         IN  [s |-> <<t % LimbBase>>, c |-> t \div LimbBase]
    ELSE LET mid == (lo + hi) \div 2
             lower == BigAddRange(a, b, lo, mid, carry)
             upper == BigAddRange(a, b, mid + 1, hi, lower.c)
         IN  [s |-> lower.s \o upper.s, c |-> upper.c]

BigAdd(a, b) ==
    LET m == BigAddRange(a, b, 1, BigMaxLen(a, b), 0)
    IN  BigNorm(m.s \o BigFromInt(m.c))

\* the limbs lo..hi of a - b - borrow, and the borrow out of them
RECURSIVE BigSubRange(_, _, _, _, _)
BigSubRange(a, b, lo, hi, borrow) ==
    IF lo > hi THEN [s |-> <<>>, c |-> borrow]
    ELSE IF lo = hi
    THEN LET t == a[lo] - BigLimb(b, lo) - borrow
         IN  IF t < 0 THEN [s |-> <<t + LimbBase>>, c |-> 1] ELSE [s |-> <<t>>, c |-> 0]
    ELSE LET mid == (lo + hi) \div 2
             lower == BigSubRange(a, b, lo, mid, borrow)
             upper == BigSubRange(a, b, mid + 1, hi, lower.c)
         IN  [s |-> lower.s \o upper.s, c |-> upper.c]

\* a - b for a >= b
BigSub(a, b) == BigNorm(BigSubRange(a, b, 1, Len(a), 0).s)

BigZeros(n) == [k \in 1..n |-> 0]

\* a * 2^n and a \div 2^n
BigShl(a, n) ==
    IF a = <<>> THEN <<>>
    ELSE BigMulSmall(BigZeros(n \div 16) \o a, 2 ^ (n % 16))
BigShr(a, n) ==
    IF Len(a) <= n \div 16 THEN <<>>
    ELSE BigDivSmall(SubSeq(a, n \div 16 + 1, Len(a)), 2 ^ (n % 16))

\* a % 2^n for n a multiple of the limb width: conversion to an n-bit unsigned
BigTrunc(a, n) ==
    IF Len(a) <= n \div 16 THEN a ELSE BigNorm(SubSeq(a, 1, n \div 16))

BigBit(a, n) == (BigLimb(a, n \div 16 + 1) \div (2 ^ (n % 16))) % 2 = 1
BigOdd(a) == BigLimb(a, 1) % 2 = 1

\* the most factors of base that one limb operation takes: base^n <= 2^15
PowChunk(base) == IF base = 2 THEN 15 ELSE 4

\* number * base^n, not yet reduced to the width of its type
RECURSIVE BigMulPow(_, _, _)
BigMulPow(a, base, n) ==
    IF n <= PowChunk(base) THEN BigMulSmall(a, base ^ n)
    ELSE LET half == BigMulPow(a, base, n \div 2)
         IN  IF half = <<>> THEN <<>> ELSE BigMulPow(half, base, n - n \div 2)

\* the number a sequence of decimal digit values denotes
RECURSIVE BigOfDigitsRange(_, _, _)
BigOfDigitsRange(ds, lo, hi) ==
    IF lo > hi THEN [v |-> <<>>, n |-> 0]
    ELSE IF lo = hi THEN [v |-> BigFromInt(ds[lo]), n |-> 1]
    ELSE LET mid == (lo + hi) \div 2
             upper == BigOfDigitsRange(ds, lo, mid)
             lower == BigOfDigitsRange(ds, mid + 1, hi)
         IN  [v |-> BigAdd(BigMulPow(upper.v, 10, lower.n), lower.v), n |-> upper.n + lower.n]

BigOfDigits(ds) == BigOfDigitsRange(ds, 1, Len(ds)).v

\* the value of a number below 2^31
RECURSIVE BigToInt(_)
BigToInt(a) ==
    IF a = <<>> THEN 0 ELSE a[1] + LimbBase * BigToInt(SubSeq(a, 2, Len(a)))

-----------------------------------------------------------------------------
(* Characters.  The input is a sequence of one-character strings; the code *)
(* works on their character codes.                                         *)

Ascii(c) ==
    CASE c = "0" -> 48 [] c = "1" -> 49 [] c = "2" -> 50 [] c = "3" -> 51
      [] c = "4" -> 52 [] c = "5" -> 53 [] c = "6" -> 54 [] c = "7" -> 55
      [] c = "8" -> 56 [] c = "9" -> 57
      [] c = "+" -> 43 [] c = "-" -> 45 [] c = "." -> 46
      [] c = "E" -> 69 [] c = "e" -> 101
      [] c = "A" -> 65 [] c = "a" -> 97
      [] c = "F" -> 70 [] c = "f" -> 102
      [] c = "I" -> 73 [] c = "i" -> 105
      [] c = "N" -> 78 [] c = "n" -> 110
      [] c = "Z" -> 90 [] c = "x" -> 120

DigitChars == {"0", "1", "2", "3", "4", "5", "6", "7", "8", "9"}
SignChars == {"+", "-"}
ExpChars == {"e", "E"}

\* case '0': ... case '9':
IsDigit(code) == code \in Ascii("0") .. Ascii("9")
\* case '+': case '-':
IsSign(code) == code \in {Ascii("+"), Ascii("-")}
\* case '.':
IsDot(code) == code = Ascii(".")
\* case 'e': case 'E':
IsExp(code) == code \in {Ascii("e"), Ascii("E")}

\* i < size() ? operator[](i) : 0, for a 0-based index into the span
CharAt(span, idx) == IF idx < Len(span) THEN Ascii(span[idx + 1]) ELSE 0

toLower(code) ==
    IF code >= Ascii("A") /\ code <= Ascii("Z") THEN code + Ascii("a") - Ascii("A")
    ELSE code

-----------------------------------------------------------------------------
(* IEEE754Traits<double>                                                   *)

MantissaTypeBits == 64
ExponentTypeBits == 32
ReducedMantissaTypeBits == 128
mantissaBits == 52
exponentBits == 11

\* std::numeric_limits<Mantissa>::max()
MantissaMax == BigSub(BigShl(<<1>>, MantissaTypeBits), <<1>>)
\* std::numeric_limits<Exponent>::max() and ::min()
ExponentMax == (2 ^ (ExponentTypeBits - 2) - 1) + 2 ^ (ExponentTypeBits - 2)
ExponentMin == (-ExponentMax) - 1

\* The outcome of a signed Exponent addition a + b: its value when it is in
\* range, and otherwise (undefined behaviour) the two's complement result.
ExponentAdd(a, b) ==
    IF b > 0 /\ a > ExponentMax - b
        THEN [v |-> (a + ExponentMin) + (b + ExponentMin), o |-> TRUE]
    ELSE IF b < 0 /\ a < ExponentMin - b
        THEN [v |-> (a + ExponentMax + 1) + (b + ExponentMax + 1), o |-> TRUE]
    ELSE [v |-> a + b, o |-> FALSE]

-----------------------------------------------------------------------------
(* NumericalParser::parseMantissa                                          *)

\* std::make_tuple(std::size_t(0), DecimalNumber<N>(false, 0, 0))
ErrorTuple == [parsed |-> 0, negative |-> FALSE, mantissa |-> <<>>, exponent |-> 0]

PMInit ==
    [i |-> 0, mantissa |-> <<>>, exponent |-> 0, negative |-> FALSE,
     stopExponent |-> FALSE, stopMantissa |-> FALSE, digits |-> FALSE]

\* "Handle overflows (mul by 10 and add at most 9)": whether the digit stops
\* the accumulation
MantissaOverflows(mantissa, digit) ==
    /\ BigLeq(BigDivSmall(MantissaMax, 10), mantissa)
    /\ \/ BigLess(BigDivSmall(MantissaMax, 10), mantissa)
       \/ /\ mantissa = BigDivSmall(MantissaMax, 10)
          /\ BigLess(BigDivSmall(BigSub(MantissaMax, BigFromInt(digit)), 10), mantissa)

\* a digit case that forgets mantissa += digit
AccumulateDropsDigit(mantissa, digit) ==
    BigTrunc(BigMulSmall(mantissa, 10), MantissaTypeBits)

\* mantissa *= 10; mantissa += digit;
Accumulate(mantissa, digit) ==
    BigTrunc(BigAddSmall(BigTrunc(BigMulSmall(mantissa, 10), MantissaTypeBits), digit),
             MantissaTypeBits)

\* a rounding that takes every half up
RoundsUpOnHalf(digit, mantissa) == digit >= 5

\* "Round to upper value!"
RoundsUp(digit, mantissa) == digit > 5 \/ (digit = 5 /\ BigOdd(mantissa))

\* ++mantissa
IncrementMantissa(mantissa) == BigTrunc(BigAddSmall(mantissa, 1), MantissaTypeBits)

\* a fall back that forgets the last digit of max
WrappedMantissaTruncated == BigDivSmall(MantissaMax, 10)

\* the mantissa after ++mantissa == 0: max / 10, and one more when the
\* last digit of max rounds up
WrappedMantissa ==
    IF BigModSmall(MantissaMax, 10) + 1 >= 5
    THEN IncrementMantissa(BigDivSmall(MantissaMax, 10))
    ELSE BigDivSmall(MantissaMax, 10)

\* The body of the digit case for the locals st: the locals after it, and
\* whether one of its exponent++ / exponent-- overflowed.
DigitCase(st, digit) ==
    LET just == ~st.stopMantissa /\ MantissaOverflows(st.mantissa, digit)
        stop == st.stopMantissa \/ just
        up == just /\ RoundsUp(digit, st.mantissa)
        wrap == up /\ IncrementMantissa(st.mantissa) = <<>>
        e1 == IF stop THEN ExponentAdd(st.exponent, 1) ELSE [v |-> st.exponent, o |-> FALSE]
        e2 == IF wrap THEN ExponentAdd(e1.v, 1) ELSE [v |-> e1.v, o |-> FALSE]
        e3 == IF st.stopExponent THEN ExponentAdd(e2.v, -1) ELSE [v |-> e2.v, o |-> FALSE]
    IN  [st |-> [st EXCEPT
                   !.i = @ + 1,
                   !.digits = TRUE,
                   !.stopMantissa = stop,
                   !.mantissa = IF ~stop THEN Accumulate(st.mantissa, digit)
                                ELSE IF ~up THEN st.mantissa
                                ELSE IF wrap THEN WrappedMantissa
                                ELSE IncrementMantissa(st.mantissa),
                   !.exponent = e3.v],
         o |-> e1.o \/ e2.o \/ e3.o]

\* a sign case without the test of the position
SignMisplacedNever(idx) == FALSE

\* if (i != 0) return error, of case '+', '-'
SignMisplaced(idx) == idx # 0

\* case '0' .. '9' of one iteration of the loop
PMDigit ==
    /\ pc = "parseMantissa"
    /\ IsDigit(CharAt(input, pm.i))
    /\ LET r == DigitCase(pm, CharAt(input, pm.i) - Ascii("0"))
       IN  /\ pm' = r.st
           /\ ub' = (IF r.o THEN ub \union {"parseMantissa"} ELSE ub)
           /\ pc' \in (IF r.o THEN {"parseMantissa", "trap"} ELSE {"parseMantissa"})
    /\ UNCHANGED <<input, result, pe, number, cv, binary, out>>

\* case '+', '-'
PMSign ==
    /\ pc = "parseMantissa"
    /\ IsSign(CharAt(input, pm.i))
    /\ IF SignMisplaced(pm.i)
       THEN /\ result' = ErrorTuple
            /\ pc' = "parseMantissaReturned"
            /\ pm' = pm
       ELSE /\ pm' = [pm EXCEPT !.negative = (CharAt(input, pm.i) = Ascii("-")),
                                !.i = @ + 1]
            /\ UNCHANGED <<result, pc>>
    /\ UNCHANGED <<input, pe, number, cv, binary, out, ub>>

\* case '.'
PMDot ==
    /\ pc = "parseMantissa"
    /\ IsDot(CharAt(input, pm.i))
    /\ IF pm.stopExponent
       THEN /\ result' = ErrorTuple
            /\ pc' = "parseMantissaReturned"
            /\ pm' = pm
       ELSE /\ pm' = [pm EXCEPT !.stopExponent = TRUE, !.i = @ + 1]
            /\ UNCHANGED <<result, pc>>
    /\ UNCHANGED <<input, pe, number, cv, binary, out, ub>>

\* default: (any other character, and the 0 read at the end of the span)
PMDefault ==
    /\ pc = "parseMantissa"
    /\ ~IsDigit(CharAt(input, pm.i))
    /\ ~IsSign(CharAt(input, pm.i))
    /\ ~IsDot(CharAt(input, pm.i))
    /\ result' = IF ~pm.digits THEN ErrorTuple
                 ELSE [parsed |-> pm.i, negative |-> pm.negative,
                       mantissa |-> pm.mantissa, exponent |-> pm.exponent]
    /\ pc' = "parseMantissaReturned"
    /\ UNCHANGED <<input, pm, pe, number, cv, binary, out, ub>>

-----------------------------------------------------------------------------
(* NumericalParser::parseExponent, called on the span that starts at       *)
(* pe.offset of the input                                                  *)

PEInit(offset) ==
    [offset |-> offset, i |-> 0, exponent |-> 0, negative |-> FALSE,
     parsed |-> 0, value |-> 0]

\* the span NumericalParser<T>(data() + parsed, size() - parsed)
PESpan == SubSeq(input, pe.offset + 1, Len(input))

\* an overflow test that forgets the digit to add
ExponentOverflowsLate(exponent, digit) == exponent > ExponentMax \div 10

\* "Handle overflows": whether the digit makes parseExponent return error
ExponentOverflows(exponent, digit) ==
    /\ exponent >= ExponentMax \div 10 - 1
    /\ \/ exponent > ExponentMax \div 10
       \/ exponent * 10 > ExponentMax - digit

\* exponent *= 10; exponent += digit; with the two's complement result
\* when the int32_t arithmetic overflows
ExponentTimesTenPlus(exponent, digit) ==
    IF exponent > ExponentMax \div 10
    THEN [v |-> 0, o |-> TRUE]
    ELSE ExponentAdd(exponent * 10, digit)

\* case '0' .. '9'
PEDigit ==
    /\ pc = "parseExponent"
    /\ IsDigit(CharAt(PESpan, pe.i))
    /\ LET digit == CharAt(PESpan, pe.i) - Ascii("0")
           sum == ExponentTimesTenPlus(pe.exponent, digit)
       IN  IF ExponentOverflows(pe.exponent, digit)
           THEN /\ pe' = [pe EXCEPT !.parsed = 0, !.value = 0]
                /\ pc' = "parseExponentReturned"
                /\ ub' = ub
           ELSE /\ pe' = [pe EXCEPT !.exponent = sum.v, !.i = @ + 1]
                /\ pc' \in (IF sum.o THEN {"parseExponent", "trap"} ELSE {"parseExponent"})
                /\ ub' = (IF sum.o THEN ub \union {"parseExponent"} ELSE ub)
    /\ UNCHANGED <<input, pm, result, number, cv, binary, out>>

\* case '+', '-'
PESign ==
    /\ pc = "parseExponent"
    /\ IsSign(CharAt(PESpan, pe.i))
    /\ IF SignMisplaced(pe.i)
       THEN /\ pe' = [pe EXCEPT !.parsed = 0, !.value = 0]
            /\ pc' = "parseExponentReturned"
       ELSE /\ pe' = [pe EXCEPT !.negative = (CharAt(PESpan, pe.i) = Ascii("-")),
                                !.i = @ + 1]
            /\ pc' = pc
    /\ UNCHANGED <<input, pm, result, number, cv, binary, out, ub>>

\* default: return std::make_tuple(i, not negative ? exponent : -exponent)
PEDefault ==
    /\ pc = "parseExponent"
    /\ ~IsDigit(CharAt(PESpan, pe.i))
    /\ ~IsSign(CharAt(PESpan, pe.i))
    /\ pe' = [pe EXCEPT !.parsed = pe.i,
                        !.value = IF ~pe.negative THEN pe.exponent ELSE -pe.exponent]
    /\ pc' = "parseExponentReturned"
    /\ UNCHANGED <<input, pm, result, number, cv, binary, out, ub>>

-----------------------------------------------------------------------------
(* NumericalParser::parseMantissaExponent                                  *)

\* if (parsed == 0) return error;
PMEMantissaError ==
    /\ pc = "parseMantissaReturned"
    /\ result.parsed = 0
    /\ number' = ErrorTuple
    /\ pc' = "parseMantissaExponentReturned"
    /\ UNCHANGED <<input, pm, result, pe, cv, binary, out, ub>>

\* case 'e': case 'E': parsed++ and the call of parseExponent
PMEExplicit ==
    /\ pc = "parseMantissaReturned"
    /\ result.parsed # 0
    /\ IsExp(CharAt(input, result.parsed))
    /\ result' = [result EXCEPT !.parsed = @ + 1]
    /\ pe' = PEInit(result.parsed + 1)
    /\ pc' = "parseExponent"
    /\ UNCHANGED <<input, pm, number, cv, binary, out, ub>>

\* no case of the switch matches: return result
PMENoExplicit ==
    /\ pc = "parseMantissaReturned"
    /\ result.parsed # 0
    /\ ~IsExp(CharAt(input, result.parsed))
    /\ number' = result
    /\ pc' = "parseMantissaExponentReturned"
    /\ UNCHANGED <<input, pm, result, pe, cv, binary, out, ub>>

\* a caller that ignores the failure of parseExponent
ExponentFailedNever(parsedExponent) == FALSE

\* if (parsedExponent == 0)
ExponentFailed(parsedExponent) == parsedExponent = 0

\* if (parsedExponent == 0) return error;
PMEExponentError ==
    /\ pc = "parseExponentReturned"
    /\ ExponentFailed(pe.parsed)
    /\ number' = ErrorTuple
    /\ pc' = "parseMantissaExponentReturned"
    /\ UNCHANGED <<input, pm, result, pe, cv, binary, out, ub>>

\* parsed += parsedExponent; exponent += explicitExponent; return result
PMEExponentAdded ==
    /\ pc = "parseExponentReturned"
    /\ ~ExponentFailed(pe.parsed)
    /\ LET sum == ExponentAdd(result.exponent, pe.value)
           r == [result EXCEPT !.parsed = @ + pe.parsed, !.exponent = sum.v]
       IN  /\ result' = r
           /\ ub' = (IF sum.o THEN ub \union {"parseMantissaExponent"} ELSE ub)
           /\ \/ /\ number' = r
                 /\ pc' = "parseMantissaExponentReturned"
              \/ /\ sum.o
                 /\ number' = number
                 /\ pc' = "trap"
    /\ UNCHANGED <<input, pm, pe, cv, binary, out>>

-----------------------------------------------------------------------------
(* IEEE754BinaryNumber<double>                                             *)

exponentBase == 2 ^ (exponentBits - 1) - 1
exponentMax == 2 ^ exponentBits - exponentBase - 2
exponentMin == 1 - exponentBase
exponentSubnormalBase == 1 - exponentBase
exponentSubnormalMin == exponentSubnormalBase - mantissaBits
\* sizeof(ReducedMantissa) * 8
reducedMantissaBits == ReducedMantissaTypeBits
\* std::numeric_limits<ReducedMantissa>::max()
ReducedMantissaMax == BigSub(BigShl(<<1>>, ReducedMantissaTypeBits), <<1>>)

\* a | b on two limbs
RECURSIVE LimbOr(_, _)
LimbOr(a, b) ==
    IF a = 0 THEN b
    ELSE IF b = 0 THEN a
    ELSE (IF a % 2 = 1 \/ b % 2 = 1 THEN 1 ELSE 0) + 2 * LimbOr(a \div 2, b \div 2)

\* a | b
BigOr(a, b) ==
    BigNorm([k \in 1..BigMaxLen(a, b) |-> LimbOr(BigLimb(a, k), BigLimb(b, k))])

\* an exponent part that is shifted one bit short
ExponentPartShiftedShort(exponent) ==
    BigShl(BigFromInt(exponent % (2 ^ (MantissaTypeBits - mantissaBits))), mantissaBits - 1)

\* static_cast<Integer>(exponent) << mantissaBits: of the converted exponent
\* only the low bits that the shift keeps inside Integer matter
ExponentPart(exponent) ==
    BigShl(BigFromInt(exponent % (2 ^ (MantissaTypeBits - mantissaBits))), mantissaBits)

\* number(negative, mantissa, exponent): the packed integer
PackNumber(negative, mantissa, exponent) ==
    BigOr(BigOr(IF negative THEN BigShl(<<1>>, mantissaBits + exponentBits) ELSE <<>>,
                ExponentPart(exponent)),
          mantissa)

\* zero(negative), infinity(negative), nan()
PackZero(negative) == PackNumber(negative, <<>>, 0)
PackInfinity(negative) == PackNumber(negative, <<>>, 2 ^ exponentBits - 1)
PackNan == PackNumber(FALSE, <<1>>, 2 ^ exponentBits - 1)

-----------------------------------------------------------------------------
(* divideBy and power.  Every divisor and multiplier of the conversion is  *)
(* a power base^n with base in {2, 10}; it is applied one factor at a time *)
(* and the remainders are put together, which gives the quotient and the   *)
(* remainder of the division by base^n.                                    *)

\* power(t, exp), for a result below 2^31
power(t, exp) == t ^ exp

\* number / base^n and number % base^n, for base^n < 2^31
RECURSIVE BigDivPow(_, _, _)
BigDivPow(a, base, n) ==
    IF n <= PowChunk(base) THEN BigDivMod(a, power(base, n))
    ELSE LET half == n \div 2
             lower == BigDivPow(a, base, half)
             upper == BigDivPow(lower.q, base, n - half)
         IN  [q |-> upper.q, r |-> lower.r + power(base, half) * upper.r]

\* a division that rounds every half-way case up
divideByHalfUp(num, base, n) ==
    LET dm == BigDivPow(num, base, n)
    IN  IF dm.r # power(base, n) \div 2 THEN dm.q ELSE BigAddSmall(dm.q, 1)

\* divideBy(number, divisor) for divisor = base^n: the new value of number
divideBy(num, base, n) ==
    LET dm == BigDivPow(num, base, n)
    IN  IF dm.r # power(base, n) \div 2
        THEN dm.q
        ELSE IF BigOdd(dm.q) THEN BigAddSmall(dm.q, 1) ELSE dm.q

-----------------------------------------------------------------------------
(* Bounds of the exploration                                               *)

\* the longest free part of an input
MaxMid == 3
\* conversions whose loops run through more decimal exponents than this are
\* not followed
TenExponentCap == 400
\* the inner loop of increaseTenExponent is followed one iteration at a time
\* for binary exponents of at most this magnitude
TwoExponentCap == 2000

-----------------------------------------------------------------------------
(* IEEE754Number<double, 10>::convertTwobase with decreaseTenExponent and  *)
(* increaseTenExponent.  cv.step numbers the four instantiations           *)
(* <9, 30>, <6, 20>, <3, 10>, <1, 4> in the order of their calls.          *)

Factors ==
    << [ten |-> 9, two |-> 30], [ten |-> 6, two |-> 20],
       [ten |-> 3, two |-> 10], [ten |-> 1, two |-> 4] >>
tenFactor == Factors[cv.step].ten
twoFactor == Factors[cv.step].two

\* a test that never finds room
NoRoomAlways(varmantissa, two) == TRUE

\* a test that always finds room
NoRoomNever(varmantissa, two) == FALSE

\* varmantissa > std::numeric_limits<ReducedMantissa>::max() / twoMultiplier
NoRoomFor(varmantissa, two) == BigLess(BigShr(ReducedMantissaMax, two), varmantissa)

\* conversion of a product to ReducedMantissa
Reduce(a) == BigTrunc(a, ReducedMantissaTypeBits)

CVInit ==
    [tenexponent |-> 0, twoexponent |-> 0, varmantissa |-> <<>>, position |-> 0,
     step |-> 1, wrapped |-> FALSE]
BinaryInit == [negative |-> FALSE, mantissa |-> <<>>, exponent |-> 0]

\* the pc after the last statement of the instantiation cv.step
AfterStep(loop) == IF cv.step < Len(Factors) THEN loop ELSE "eliminated"
NextStep == IF cv.step < Len(Factors) THEN cv.step + 1 ELSE cv.step

\* whether the loops of the conversion end within TenExponentCap decimal
\* exponents: a positive exponent on a mantissa that is not 0 bails out of
\* decreaseTenExponent<9, 30> as soon as twoexponent + 30 exceeds exponentMax
Followed(n) ==
    \/ n.exponent \in -TenExponentCap .. TenExponentCap
    \/ n.exponent > 0 /\ n.mantissa # <<>>

\* the three initialisations and the choice of the branch
ConvertStart ==
    /\ pc = "convertTwobase"
    /\ Followed(number)
    /\ cv' = [CVInit EXCEPT !.tenexponent = number.exponent,
                            !.varmantissa = number.mantissa]
    /\ pc' = IF number.exponent > 0 THEN "decrease"
             ELSE IF number.exponent < 0 THEN "increase"
             ELSE "eliminated"
    /\ UNCHANGED <<input, pm, result, pe, number, binary, out, ub>>

\* decreaseTenExponent: the loop condition fails, the function returns
DecreaseReturn ==
    /\ pc = "decrease"
    /\ ~(cv.tenexponent >= tenFactor)
    /\ pc' = AfterStep("decrease")
    /\ cv' = [cv EXCEPT !.step = NextStep]
    /\ UNCHANGED <<input, pm, result, pe, number, binary, out, ub>>

\* decreaseTenExponent: "Overflow, bail out"
DecreaseBail ==
    /\ pc = "decrease"
    /\ cv.tenexponent >= tenFactor
    /\ NoRoomFor(cv.varmantissa, twoFactor)
    /\ cv.twoexponent + twoFactor > exponentMax
    /\ cv' = [cv EXCEPT !.tenexponent = 0, !.varmantissa = <<1>>,
                        !.twoexponent = exponentMax + 1, !.step = NextStep]
    /\ pc' = AfterStep("decrease")
    /\ UNCHANGED <<input, pm, result, pe, number, binary, out, ub>>

\* decreaseTenExponent: one iteration of the loop
DecreaseStep ==
    /\ pc = "decrease"
    /\ cv.tenexponent >= tenFactor
    /\ ~(NoRoomFor(cv.varmantissa, twoFactor) /\ cv.twoexponent + twoFactor > exponentMax)
    /\ LET full == NoRoomFor(cv.varmantissa, twoFactor)
           divided == IF full THEN divideBy(cv.varmantissa, 2, twoFactor)
                      ELSE cv.varmantissa
           product == BigMulPow(divided, 10, tenFactor)
       IN  cv' = [cv EXCEPT
                    !.varmantissa = Reduce(product),
                    !.wrapped = @ \/ product # Reduce(product),
                    !.twoexponent = IF full THEN @ + twoFactor ELSE @,
                    !.tenexponent = @ - tenFactor]
    /\ UNCHANGED <<input, pc, pm, result, pe, number, binary, out, ub>>

\* increaseTenExponent: the outer loop condition fails, the function returns
IncreaseReturn ==
    /\ pc = "increase"
    /\ ~(cv.tenexponent <= -tenFactor)
    /\ pc' = AfterStep("increase")
    /\ cv' = [cv EXCEPT !.step = NextStep]
    /\ UNCHANGED <<input, pm, result, pe, number, binary, out, ub>>

\* increaseTenExponent: the outer loop condition holds
IncreaseEnter ==
    /\ pc = "increase"
    /\ cv.tenexponent <= -tenFactor
    /\ pc' = "increaseRoom"
    /\ UNCHANGED <<input, pm, result, pe, number, cv, binary, out, ub>>

\* twoexponent < exponentSubnormalMin - reducedMantissaBits + twoexponent:
\* [v: the value of the comparison with a wrapped sum, o: the sum overflowed]
Underflows(twoexponent) ==
    LET sum == ExponentAdd(exponentSubnormalMin - reducedMantissaBits, twoexponent)
    IN  [v |-> twoexponent < sum.v, o |-> sum.o]

\* the binary exponents at which the inner loop is followed one iteration
\* at a time: those within TwoExponentCap, and those at which the sum of the
\* bail-out test overflows
Stepwise(twoexponent) ==
    \/ twoexponent \in (1 - TwoExponentCap) .. (TwoExponentCap - 1)
    \/ Underflows(twoexponent).o

\* increaseTenExponent: one iteration of the inner loop.  When the sum of
\* the bail-out test overflows the test may give either answer.
IncreaseRoom ==
    /\ pc = "increaseRoom"
    /\ ~NoRoomFor(cv.varmantissa, twoFactor)
    /\ Stepwise(cv.twoexponent)
    /\ LET under == Underflows(cv.twoexponent)
           diff == ExponentAdd(cv.twoexponent, -twoFactor)
           product == BigMulPow(cv.varmantissa, 2, twoFactor)
       IN  \E bail \in (IF under.o THEN BOOLEAN ELSE {under.v}) :
               IF bail
               THEN /\ cv' = [cv EXCEPT !.tenexponent = 0, !.varmantissa = <<>>,
                                        !.twoexponent = 0, !.step = NextStep]
                    /\ pc' = AfterStep("increase")
                    /\ ub' = (IF under.o THEN ub \union {"increaseTenExponent"} ELSE ub)
               ELSE /\ cv' = [cv EXCEPT !.varmantissa = Reduce(product),
                                        !.wrapped = @ \/ product # Reduce(product),
                                        !.twoexponent = diff.v]
                    /\ pc' \in (IF diff.o THEN {"increaseRoom", "trap"}
                                ELSE {"increaseRoom"})
                    /\ ub' = (IF under.o \/ diff.o THEN ub \union {"increaseTenExponent"}
                              ELSE ub)
    /\ UNCHANGED <<input, pm, result, pe, number, binary, out>>

\* the first of twoexponent, twoexponent - twoFactor, ... that is stepwise
FarTarget(twoexponent) ==
    LET floor == IF twoexponent > 0 THEN TwoExponentCap
                 ELSE (ExponentMin - exponentSubnormalMin) + reducedMantissaBits
    IN  twoexponent - ((twoexponent - floor) \div twoFactor + 1) * twoFactor

\* increaseTenExponent: the iterations of the inner loop on a varmantissa of
\* 0 outside the stepwise exponents, taken together: none of their tests
\* overflows or holds, and each leaves varmantissa 0 and subtracts twoFactor
IncreaseRoomFar ==
    /\ pc = "increaseRoom"
    /\ cv.varmantissa = <<>>
    /\ ~Stepwise(cv.twoexponent)
    /\ cv' = [cv EXCEPT !.twoexponent = FarTarget(cv.twoexponent)]
    /\ UNCHANGED <<input, pc, pm, result, pe, number, binary, out, ub>>

\* increaseTenExponent: the inner loop condition fails; tenexponent +=
\* tenFactor and divideBy(varmantissa, tenMultiplier)
IncreaseStep ==
    /\ pc = "increaseRoom"
    /\ NoRoomFor(cv.varmantissa, twoFactor)
    /\ cv' = [cv EXCEPT !.tenexponent = @ + tenFactor,
                        !.varmantissa = divideBy(cv.varmantissa, 10, tenFactor)]
    /\ pc' = "increase"
    /\ UNCHANGED <<input, pm, result, pe, number, binary, out, ub>>

\* "Zero is zero"
ConvertZero ==
    /\ pc = "eliminated"
    /\ cv.varmantissa = <<>>
    /\ binary' = [negative |-> number.negative, mantissa |-> <<>>, exponent |-> 0]
    /\ pc' = "converted"
    /\ UNCHANGED <<input, pm, result, pe, number, cv, out, ub>>

\* Exponent position = mantissaBits + oneForEncoded - 1
ConvertNormalize ==
    /\ pc = "eliminated"
    /\ cv.varmantissa # <<>>
    /\ cv' = [cv EXCEPT !.position = mantissaBits]
    /\ pc' = "narrow"
    /\ UNCHANGED <<input, pm, result, pe, number, binary, out, ub>>

\* while (varmantissa >= (ReducedMantissa{ 1 } << mantissaBitsKept))
NarrowStep ==
    /\ pc = "narrow"
    /\ BigLeq(BigShl(<<1>>, mantissaBits + 1), cv.varmantissa)
    /\ cv' = [cv EXCEPT !.varmantissa = divideBy(cv.varmantissa, 2, 1),
                        !.position = @ + 1]
    /\ UNCHANGED <<input, pc, pm, result, pe, number, binary, out, ub>>

NarrowDone ==
    /\ pc = "narrow"
    /\ ~BigLeq(BigShl(<<1>>, mantissaBits + 1), cv.varmantissa)
    /\ pc' = "widen"
    /\ UNCHANGED <<input, pm, result, pe, number, cv, binary, out, ub>>

\* a widening that stops one bit short of the leading bit
CanWidenOneShort ==
    /\ BigLess(cv.varmantissa, BigShl(<<1>>, mantissaBits - 1))
    /\ cv.twoexponent + cv.position > exponentMin

\* varmantissa < (Mantissa{ 1 } << (mantissaBitsKept - 1)) &&
\* twoexponent + position > BinaryNumber::exponentMin
CanWiden ==
    /\ BigLess(cv.varmantissa, BigShl(<<1>>, mantissaBits))
    /\ cv.twoexponent + cv.position > exponentMin

WidenStep ==
    /\ pc = "widen"
    /\ CanWiden
    /\ cv' = [cv EXCEPT !.varmantissa = Reduce(BigMulSmall(cv.varmantissa, 2)),
                        !.position = @ - 1]
    /\ UNCHANGED <<input, pc, pm, result, pe, number, binary, out, ub>>

\* the loop ends; twoexponent += position
WidenDone ==
    /\ pc = "widen"
    /\ ~CanWiden
    /\ cv' = [cv EXCEPT !.twoexponent = @ + cv.position]
    /\ pc' = "subnormal"
    /\ UNCHANGED <<input, pm, result, pe, number, binary, out, ub>>

\* while (twoexponent < BinaryNumber::exponentMin)
SubnormalStep ==
    /\ pc = "subnormal"
    /\ cv.twoexponent < exponentMin
    /\ cv' = [cv EXCEPT !.varmantissa = divideBy(cv.varmantissa, 2, 1),
                        !.twoexponent = @ + 1]
    /\ UNCHANGED <<input, pc, pm, result, pe, number, binary, out, ub>>

\* return IEEE754Number<N, 2>(negative, varmantissa, twoexponent)
ConvertReturn ==
    /\ pc = "subnormal"
    /\ ~(cv.twoexponent < exponentMin)
    /\ binary' = [negative |-> number.negative,
                  mantissa |-> BigTrunc(cv.varmantissa, MantissaTypeBits),
                  exponent |-> cv.twoexponent]
    /\ pc' = "converted"
    /\ UNCHANGED <<input, pm, result, pe, number, cv, out, ub>>

-----------------------------------------------------------------------------
(* IEEE754Number<double, 2>::toIEEE754                                     *)

\* a packer that leaves the leading bit in the mantissa of a normal number
toIEEE754KeepsLeadingBit(b) ==
    IF b.mantissa = <<>> \/ b.exponent < exponentSubnormalMin
        THEN PackZero(b.negative)
    ELSE IF b.exponent > exponentMax
        THEN PackInfinity(b.negative)
    ELSE IF BigBit(b.mantissa, mantissaBits)
        THEN PackNumber(b.negative, b.mantissa, b.exponent + exponentBase)
    ELSE PackNumber(b.negative, b.mantissa, 0)

\* a packer that tests the overflow before the zero
toIEEE754InfinityFirst(b) ==
    IF b.exponent > exponentMax
        THEN PackInfinity(b.negative)
    ELSE IF b.mantissa = <<>> \/ b.exponent < exponentSubnormalMin
        THEN PackZero(b.negative)
    ELSE IF BigBit(b.mantissa, mantissaBits)
        THEN PackNumber(b.negative,
                        BigSub(b.mantissa, BigShl(<<1>>, mantissaBits)),
                        b.exponent + exponentBase)
    ELSE PackNumber(b.negative, b.mantissa, 0)

toIEEE754(b) ==
    IF b.mantissa = <<>> \/ b.exponent < exponentSubnormalMin
        THEN PackZero(b.negative)
    ELSE IF b.exponent > exponentMax
        THEN PackInfinity(b.negative)
    ELSE IF BigBit(b.mantissa, mantissaBits)
        THEN PackNumber(b.negative,
                        BigSub(b.mantissa, BigShl(<<1>>, mantissaBits)),
                        b.exponent + exponentBase)
    ELSE PackNumber(b.negative, b.mantissa, 0)

\* assert(mantissaPart < (Integer{ 1 } << Base::mantissaBits)) of number()
numberAsserts(mantissa) == BigLess(mantissa, BigShl(<<1>>, mantissaBits))

\* whether every assert on the path of toIEEE754 holds
toIEEE754Asserts(b) ==
    IF b.mantissa = <<>> \/ b.exponent < exponentSubnormalMin
        THEN numberAsserts(<<>>)
    ELSE IF b.exponent > exponentMax
        THEN numberAsserts(<<>>)
    ELSE IF BigBit(b.mantissa, mantissaBits)
        THEN /\ b.exponent <= exponentMax
             /\ b.exponent >= exponentMin
             /\ b.exponent + exponentBase # 0
             /\ numberAsserts(BigSub(b.mantissa, BigShl(<<1>>, mantissaBits)))
    ELSE /\ b.exponent = exponentSubnormalBase
         /\ numberAsserts(b.mantissa)

\* what an assert on a condition does: it passes (TRUE) when the condition
\* holds; when it does not, the build with assertions aborts (FALSE) and the
\* build with NDEBUG goes on (TRUE)
AssertOutcomes(condition) == IF condition THEN {TRUE} ELSE {TRUE, FALSE}

-----------------------------------------------------------------------------
(* NumericalParser::toAnyDouble                                            *)

\* a comparison that minds the case
SpanEqualsExactCase(span, str) == span = str

\* operator==(const char (&str)[N]): case insensitive comparison
SpanEquals(span, str) ==
    /\ Len(span) = Len(str)
    /\ \A k \in 1..Len(str) : toLower(Ascii(span[k])) = toLower(Ascii(str[k]))

OutInit == [error |-> FALSE, value |-> <<>>, returned |-> FALSE]

\* error = parsed != size(); if (not error) the call of convertTwobase
ToAnyDoubleConvert ==
    /\ pc = "parseMantissaExponentReturned"
    /\ ~(number.parsed # Len(input))
    /\ out' = [out EXCEPT !.error = FALSE]
    /\ pc' = "convertTwobase"
    /\ UNCHANGED <<input, pm, result, pe, number, cv, binary, ub>>

\* return number.convertTwobase().toFloat()
ToAnyDoubleReturn ==
    /\ pc = "converted"
    /\ out' = [out EXCEPT !.value = toIEEE754(binary), !.returned = TRUE]
    /\ pc' = "done"
    /\ UNCHANGED <<input, pm, result, pe, number, cv, binary, ub>>

\* the else branches: the comparisons with "Inf", "+Inf", "-Inf" and "NaN"
ToAnyDoubleLiteral ==
    /\ pc = "parseMantissaExponentReturned"
    /\ number.parsed # Len(input)
    /\ out' =
        IF SpanEquals(input, <<"I", "n", "f">>) \/ SpanEquals(input, <<"+", "I", "n", "f">>)
            THEN [error |-> FALSE, value |-> PackInfinity(FALSE), returned |-> TRUE]
        ELSE IF SpanEquals(input, <<"-", "I", "n", "f">>)
            THEN [error |-> FALSE, value |-> PackInfinity(TRUE), returned |-> TRUE]
        ELSE IF SpanEquals(input, <<"N", "a", "N">>)
            THEN [error |-> FALSE, value |-> PackNan, returned |-> TRUE]
        ELSE [error |-> TRUE, value |-> <<>>, returned |-> TRUE]
    /\ pc' = "done"
    /\ UNCHANGED <<input, pm, result, pe, number, cv, binary, ub>>

-----------------------------------------------------------------------------
(* The inputs: every string of at most MaxMid characters of the alphabet,   *)
(* every head followed by such a string of at most MaxMid - 1 characters,  *)
(* and literals of the tests.                                              *)

Alphabet == DigitChars \union SignChars \union ExpChars \union {".", "x"}

\* the strings over the alphabet of at most n characters
Mids(n) == UNION {[1..k -> Alphabet] : k \in 0..n}

Heads ==
    { <<>>,
      <<"1", "e">>,
      \* max / 10, max / 10 + 1 and a 19-digit number far below
      <<"1","8","4","4","6","7","4","4","0","7","3","7","0","9","5","5","1","6","1">>,
      <<"1","8","4","4","6","7","4","4","0","7","3","7","0","9","5","5","1","6","2">>,
      <<"1","0","0","0","0","0","0","0","0","0","0","0","0","0","0","0","1","1","1">>,
      \* exponents next to the Exponent type's limits
      <<"1", "e", "2","1","4","7","4","8","3","6","4">>,
      <<"0", ".", "0", "0", "e", "-", "2","1","4","7","4","8","3","6","4">> }

Literals ==
    { <<"-", "-", "1", "2", "6">>,
      <<"-", "+", "1", "2", "6">>,
      <<"1", ".", "1", ".", "1">>,
      <<"N", "a", "N">>, <<"n", "a", "n">>, <<"N", "A", "N">>, <<"-", "N", "a", "N">>,
      <<"I", "n", "f">>, <<"i", "n", "f">>, <<"I", "N", "F">>, <<"i", "N", "f">>,
      <<"+", "I", "n", "f">>, <<"+", "i", "n", "f">>,
      <<"-", "I", "n", "f">>, <<"-", "I", "N", "F">>,
      <<"I", "n">>, <<"I", "n", "f", "x">>, <<"N", "a", "N", "0">>, <<"1", "N", "a", "N">>,
      <<"-", "1", ".", "2", "3", "4", "5", "6">>,
      <<"1", ".", "2", "e", "+", "2", "0", "0">>,
      <<"-", "1", ".", "2", "e", "-", "2", "0", "0">>,
      \* 2^55 + 11
      <<"3","6","0","2","8","7","9","7","0","1","8","9","6","3","9","7","9">>,
      <<"3",".","1","4","1","5","9","2","6","5","3","5","8","9","7","9","3","2",
        "E","+","1","0">>,
      <<"4",".","9","4","0","6","5","6","4","5","8","4","1","2","4","6","5","4",
        "E","-","3","2","4">>,
      <<"1",".","7","9","7","6","9","3","1","3","4","8","6","2","3","1","5","7",
        "E","3","0","8">>,
      \* beyond the largest and below the smallest binary64
      <<"1", "e", "4", "0", "0">>, <<"1", "e", "-", "4", "0", "0">>,
      <<"1","8","4","4","6","7","4","4","0","7","3","7","0","9","5","5","1","6","1",
        "5","5","1","1">> }

Inputs ==
    Mids(MaxMid) \union {h \o m : h \in Heads, m \in Mids(MaxMid - 1)} \union Literals

Init ==
    /\ input \in Inputs
    /\ pc = "parseMantissa"
    /\ pm = PMInit
    /\ result = ErrorTuple
    /\ pe = PEInit(0)
    /\ number = ErrorTuple
    /\ cv = CVInit
    /\ binary = BinaryInit
    /\ out = OutInit
    /\ ub = {}

Next ==
    \/ PMDigit \/ PMSign \/ PMDot \/ PMDefault
    \/ PMEMantissaError \/ PMEExplicit \/ PMENoExplicit
    \/ PEDigit \/ PESign \/ PEDefault
    \/ PMEExponentError \/ PMEExponentAdded
    \/ ToAnyDoubleConvert \/ ToAnyDoubleLiteral \/ ToAnyDoubleReturn
    \/ ConvertStart
    \/ DecreaseReturn \/ DecreaseBail \/ DecreaseStep
    \/ IncreaseReturn \/ IncreaseEnter \/ IncreaseRoom \/ IncreaseRoomFar
    \/ IncreaseStep
    \/ ConvertZero \/ ConvertNormalize
    \/ NarrowStep \/ NarrowDone \/ WidenStep \/ WidenDone
    \/ SubnormalStep \/ ConvertReturn

Spec == Init /\ [][Next]_vars

-----------------------------------------------------------------------------
(* IEEE754BinaryNumber::number and IEEE754Number<double, 2>::toIEEE754 on  *)
(* arguments of their types, not only on the results of convertTwobase.    *)

\* Mantissa values around the implicit leading bit and the width of the type
BinaryMantissas ==
    { <<>>, <<1>>, <<2>>, <<21845, 21845, 21845, 5>>,
      BigShl(<<1>>, mantissaBits - 1),
      BigSub(BigShl(<<1>>, mantissaBits), <<1>>),
      BigShl(<<1>>, mantissaBits),
      BigAddSmall(BigShl(<<1>>, mantissaBits), 1),
      BigSub(BigShl(<<1>>, mantissaBits + 1), <<1>>),
      BigShl(<<1>>, mantissaBits + 1),
      BigShl(<<3>>, mantissaBits),
      MantissaMax }

\* Exponent values around the limits of the format and of the type
BinaryExponents ==
    { ExponentMin, exponentSubnormalMin - 1, exponentSubnormalMin,
      exponentSubnormalMin + 1, exponentMin - 1, exponentMin, exponentMin + 1,
      -1, 0, 1, exponentMax - 1, exponentMax, exponentMax + 1, ExponentMax }

\* the values of the exponent field, and one on each side
FieldExponents == -1 .. 2 ^ exponentBits

InitBinary ==
    /\ input = <<>>
    /\ pm = PMInit
    /\ result = ErrorTuple
    /\ pe = PEInit(0)
    /\ number = ErrorTuple
    /\ cv = CVInit
    /\ out = OutInit
    /\ ub = {}
    /\ \/ /\ pc = "number"
          /\ binary \in [negative : BOOLEAN, mantissa : BinaryMantissas,
                         exponent : FieldExponents]
       \/ /\ pc = "toIEEE754"
          /\ binary \in [negative : BOOLEAN, mantissa : BinaryMantissas,
                         exponent : BinaryExponents]

\* number(negative, mantissa, exponent)
NumberCall ==
    /\ pc = "number"
    /\ \E passed \in AssertOutcomes(numberAsserts(binary.mantissa)) :
          /\ pc' = IF passed THEN "numberReturned" ELSE "numberAborted"
          /\ out' = IF passed
                    THEN [out EXCEPT
                            !.value = PackNumber(binary.negative, binary.mantissa,
                                                 binary.exponent),
                            !.returned = TRUE]
                    ELSE out
    /\ UNCHANGED <<input, pm, result, pe, number, cv, binary, ub>>

\* IEEE754Number<N, 2>(negative, mantissa, exponent).toIEEE754()
ToIEEE754Call ==
    /\ pc = "toIEEE754"
    /\ \E passed \in AssertOutcomes(toIEEE754Asserts(binary)) :
          /\ pc' = IF passed THEN "toIEEE754Returned" ELSE "toIEEE754Aborted"
          /\ out' = IF passed
                    THEN [out EXCEPT !.value = toIEEE754(binary), !.returned = TRUE]
                    ELSE out
    /\ UNCHANGED <<input, pm, result, pe, number, cv, binary, ub>>

NextBinary == NumberCall \/ ToIEEE754Call

SpecBinary == InitBinary /\ [][NextBinary]_vars

-----------------------------------------------------------------------------
(* IEEE754Number<double, 10>::convertTwobase().toIEEE754() on decimal      *)
(* numbers of any mantissa and exponent, as the tests call it.             *)

\* the number written as groups of nine decimal digits, the first group
\* the most significant
RECURSIVE BigOfGroups(_)
BigOfGroups(groups) ==
    IF groups = <<>> THEN <<>>
    ELSE BigAdd(BigMulPow(BigOfGroups(SubSeq(groups, 1, Len(groups) - 1)), 10, 9),
                BigFromInt(groups[Len(groups)]))

\* mantissas: small ones, the digits of the tests' literals next to the
\* smallest subnormal and the largest double, and the largest Mantissa
DecimalMantissas ==
    { <<>>, <<1>>, <<2>>, <<3>>, <<4>>, <<5>>,
      BigOfGroups(<<24703282, 292062327>>),
      BigOfGroups(<<24703282, 292062328>>),
      BigOfGroups(<<49406564, 584124654>>),
      BigOfGroups(<<17976931, 348623157>>),
      BigOfGroups(<<17, 976931348, 623159077>>),
      BigOfGroups(<<17, 976931348, 623159078>>),
      MantissaMax }

\* exponents that put these mantissas next to 2^exponentSubnormalMin and
\* 2^(exponentMax + 1), and the ends of the ranges
DecimalExponents ==
    { ExponentMax, 1000, TenExponentCap, 309, 308, 292, 290, 289, 1, 0, -1,
      -323, -324, -325, -339, -340, -341, -TenExponentCap }

InitDecimal ==
    /\ input = <<>>
    /\ pc = "convertTwobase"
    /\ pm = PMInit
    /\ result = ErrorTuple
    /\ pe = PEInit(0)
    /\ number \in [parsed : {0}, negative : BOOLEAN, mantissa : DecimalMantissas,
                   exponent : DecimalExponents]
    /\ cv = CVInit
    /\ binary = BinaryInit
    /\ out = OutInit
    /\ ub = {}

NextDecimal ==
    \/ ConvertStart
    \/ DecreaseReturn \/ DecreaseBail \/ DecreaseStep
    \/ IncreaseReturn \/ IncreaseEnter \/ IncreaseRoom \/ IncreaseRoomFar
    \/ IncreaseStep
    \/ ConvertZero \/ ConvertNormalize
    \/ NarrowStep \/ NarrowDone \/ WidenStep \/ WidenDone
    \/ SubnormalStep \/ ConvertReturn
    \/ ToAnyDoubleReturn

SpecDecimal == InitDecimal /\ [][NextDecimal]_vars

-----------------------------------------------------------------------------
(* divideBy(number, divisor) on its own, with the divisors of its calls:   *)
(* twoMultiplier, tenMultiplier and 2.  cv holds the number passed by      *)
(* reference and the divisor as base^n.                                    *)

\* the divisors of the calls in decreaseTenExponent, increaseTenExponent and
\* convertTwobase
Divisors ==
    {[base |-> 2, n |-> k] : k \in {1, 4, 10, 20, 30}}
        \union {[base |-> 10, n |-> k] : k \in {1, 3, 6, 9}}

\* numbers on both sides of the multiples and of the half-way points of the
\* divisor, and the largest accumulator
DivideNumbers(d) ==
    LET half == power(d.base, d.n) \div 2
    IN  { BigAdd(BigMulPow(BigFromInt(q), d.base, d.n), BigFromInt(r)) :
            q \in 0 .. 5, r \in {0, 1, half - 1, half, half + 1, 2 * half - 1} }
        \union {ReducedMantissaMax}

InitDivide ==
    /\ input = <<>>
    /\ pc = "divideBy"
    /\ pm = PMInit
    /\ result = ErrorTuple
    /\ pe = PEInit(0)
    /\ number = ErrorTuple
    /\ \E d \in Divisors :
          cv \in [number : DivideNumbers(d), base : {d.base}, n : {d.n}]
    /\ binary = BinaryInit
    /\ out = OutInit
    /\ ub = {}

\* divideBy(number, divisor)
DivideByCall ==
    /\ pc = "divideBy"
    /\ cv' = [cv EXCEPT !.number = divideBy(cv.number, cv.base, cv.n)]
    /\ pc' = "divideByReturned"
    /\ UNCHANGED <<input, pm, result, pe, number, binary, out, ub>>

NextDivide == DivideByCall

SpecDivide == InitDivide /\ [][NextDivide]_vars

-----------------------------------------------------------------------------
(* Conversions one after the other, as a comparison of the results of two  *)
(* decimal numbers makes them: number is the number under conversion,      *)
(* result the number of the call before and out what that call returned.   *)

\* decimals of one value written with different exponents, their
\* neighbours, and decimals that take the other paths of the conversion
PairNumbers ==
    { [parsed |-> 0, negative |-> FALSE, mantissa |-> d.m, exponent |-> d.e] :
        d \in { [m |-> <<>>, e |-> 0], [m |-> <<>>, e |-> -1],
                [m |-> <<1>>, e |-> 0], [m |-> <<5>>, e |-> -324],
                [m |-> BigOfGroups(<<6738>>), e |-> 269],
                [m |-> BigOfGroups(<<6739>>), e |-> 269],
                [m |-> BigOfGroups(<<673, 900000000>>), e |-> 261],
                [m |-> BigOfGroups(<<6740>>), e |-> 269],
                [m |-> MantissaMax, e |-> TenExponentCap] } }

\* a.mantissa * 10^a.exponent <= b.mantissa * 10^b.exponent
ValueLeq(a, b) ==
    LET low == IF a.exponent < b.exponent THEN a.exponent ELSE b.exponent
    IN  BigLeq(BigMulPow(a.mantissa, 10, a.exponent - low),
               BigMulPow(b.mantissa, 10, b.exponent - low))

InitPair ==
    /\ input = <<>>
    /\ pc = "convertTwobase"
    /\ pm = PMInit
    /\ result = ErrorTuple
    /\ pe = PEInit(0)
    /\ number \in PairNumbers
    /\ cv = CVInit
    /\ binary = BinaryInit
    /\ out = OutInit
    /\ ub = {}

\* the next conversion, of a number that is not below the one before
NextCall ==
    /\ pc = "done"
    /\ result' = number
    /\ \E b \in PairNumbers : ValueLeq(number, b) /\ number' = b
    /\ cv' = CVInit
    /\ binary' = BinaryInit
    /\ pc' = "convertTwobase"
    /\ UNCHANGED <<input, pm, pe, out, ub>>

NextPair == NextDecimal \/ NextCall

SpecPair == InitPair /\ [][NextPair]_vars

-----------------------------------------------------------------------------
(* The grammar of literals, read off the input text alone.                 *)

\* the position of the first 'e' or 'E' of s, 0 when there is none
FirstExp(s) ==
    IF \E k \in 1..Len(s) : s[k] \in ExpChars
    THEN CHOOSE k \in 1..Len(s) :
             s[k] \in ExpChars /\ \A j \in 1..(k - 1) : s[j] \notin ExpChars
    ELSE 0

LiteralMantissa(s) == IF FirstExp(s) = 0 THEN s ELSE SubSeq(s, 1, FirstExp(s) - 1)
LiteralExponent(s) == IF FirstExp(s) = 0 THEN <<>> ELSE SubSeq(s, FirstExp(s) + 1, Len(s))

\* t without its optional leading sign
Unsigned(t) == IF t # <<>> /\ t[1] \in SignChars THEN SubSeq(t, 2, Len(t)) ELSE t
StartsWithMinus(t) == t # <<>> /\ t[1] = "-"

CountOf(t, chars) == Cardinality({k \in 1..Len(t) : t[k] \in chars})

\* the values of the decimal digits of t, in order
DigitsOf(t) ==
    LET ds == SelectSeq(t, LAMBDA c : c \in DigitChars)
    IN  [k \in 1..Len(ds) |-> CHOOSE d \in 0..9 : Ascii(ds[k]) = Ascii("0") + d]

\* the number of digits of t after its first '.'
FractionDigits(t) ==
    IF \E k \in 1..Len(t) : t[k] = "."
    THEN LET dot == CHOOSE k \in 1..Len(t) : t[k] = "." /\ \A j \in 1..(k - 1) : t[j] # "."
         IN  CountOf(SubSeq(t, dot + 1, Len(t)), DigitChars)
    ELSE 0

\* optional sign, digits with at most one '.', optional e/E exponent with digits
WellFormed(s) ==
    /\ LET m == Unsigned(LiteralMantissa(s))
       IN  /\ \A k \in 1..Len(m) : m[k] \in DigitChars \union {"."}
           /\ CountOf(m, {"."}) <= 1
           /\ CountOf(m, DigitChars) >= 1
    /\ FirstExp(s) # 0 =>
           LET x == Unsigned(LiteralExponent(s))
           IN  x # <<>> /\ \A k \in 1..Len(x) : x[k] \in DigitChars

\* the value of all mantissa digits fits the Mantissa type
NoDigitDiscarded(s) == BigLeq(BigOfDigits(DigitsOf(LiteralMantissa(s))), MantissaMax)

ExplicitMagnitude(s) == BigOfDigits(DigitsOf(LiteralExponent(s)))
ExplicitFits(s) == BigLeq(ExplicitMagnitude(s), BigFromInt(ExponentMax))
\* the explicit exponent of s, when its magnitude fits the Exponent type
ExplicitExponent(s) ==
    IF StartsWithMinus(LiteralExponent(s)) THEN -BigToInt(ExplicitMagnitude(s))
    ELSE BigToInt(ExplicitMagnitude(s))
\* explicit exponent minus the number of fraction digits is an Exponent
DifferenceFits(s) ==
    ExplicitExponent(s) >= ExponentMin + FractionDigits(LiteralMantissa(s))

LexedAsWritten(s, n) ==
    /\ n.parsed = Len(s)
    /\ n.negative = StartsWithMinus(s)
    /\ n.mantissa = BigOfDigits(DigitsOf(LiteralMantissa(s)))
    /\ n.exponent = ExplicitExponent(s) - FractionDigits(LiteralMantissa(s))

-----------------------------------------------------------------------------
(* Claims about the lexer.                                                 *)

\* C2, as stated: for every well-formed literal in which no mantissa digit is
\* discarded, parseMantissaExponent returns consumed == length, negative ==
\* (first character is '-'), mantissa == the integer of all mantissa digits
\* and exponent == explicit exponent minus the number of fraction digits.
C2_AnyExponent ==
    (pc = "parseMantissaExponentReturned" /\ WellFormed(input) /\ NoDigitDiscarded(input))
        => /\ ExplicitFits(input)
           /\ DifferenceFits(input)
           /\ LexedAsWritten(input, number)

\* C2, amended: the same for the well-formed literals whose explicit
\* exponent has a magnitude of at most the Exponent type's maximum and whose
\* explicit exponent minus the number of fraction digits is an Exponent.
C2_LexedAsWritten ==
    (/\ pc = "parseMantissaExponentReturned"
     /\ WellFormed(input) /\ NoDigitDiscarded(input)
     /\ ExplicitFits(input) /\ DifferenceFits(input))
        => LexedAsWritten(input, number)

C2_Witness ==
    /\ pc = "parseMantissaExponentReturned"
    /\ WellFormed(input) /\ NoDigitDiscarded(input)
    /\ ExplicitFits(input) /\ DifferenceFits(input)
    /\ StartsWithMinus(input)
    /\ FractionDigits(LiteralMantissa(input)) = 1
    /\ number.exponent = -201

\* the scanned part of s: up to the first character that is no digit, sign or '.'
Scanned(s) ==
    LET stops == {k \in 1..Len(s) : s[k] \notin DigitChars \union SignChars \union {"."}}
    IN  IF stops = {} THEN s
        ELSE SubSeq(s, 1, (CHOOSE k \in stops : \A j \in stops : k <= j) - 1)

\* a sign at a position other than 0, a second '.', or no digit before the
\* scan ends
ScanFails(s) ==
    LET t == Scanned(s)
    IN  \/ \E k \in 2..Len(t) : t[k] \in SignChars
        \/ CountOf(t, {"."}) >= 2
        \/ CountOf(t, DigitChars) = 0

C3_Examples ==
    { <<>>,
      <<"-", "-", "1", "2", "6">>, <<"-", "+", "1", "2", "6">>,
      <<"1", ".", "1", ".", "1">>,
      <<"N", "a", "N">>, <<"+", "I", "n", "f">>, <<"-", "I", "n", "f">> }

\* C3: parseMantissa returns consumed length 0 together with (false, 0, 0)
\* exactly when a sign occurs at a position other than 0, a second '.'
\* occurs, or the scan ends before any digit; otherwise consumed >= 1; and
\* the seven listed inputs all give (0, false, 0, 0).
C3_FailsExactly ==
    pc = "parseMantissaReturned"
        => /\ ScanFails(input) <=> result.parsed = 0
           /\ result.parsed = 0 => result = ErrorTuple
           /\ ~ScanFails(input) => result.parsed >= 1
           /\ input \in C3_Examples => result = ErrorTuple

C3_Witness ==
    /\ pc = "parseMantissaReturned"
    /\ input = <<"-", "+", "1", "2", "6">>
    /\ result = ErrorTuple

\* One execution of the digit case of parseMantissa, and what the text says
\* about the digit it reads.
PMDigitStep == pc = "parseMantissa" /\ IsDigit(CharAt(input, pm.i)) /\ pm' # pm
NextDigit == CHOOSE d \in 0..9 : CharAt(input, pm.i) = Ascii("0") + d
\* appending the next digit would exceed the Mantissa type's maximum
WouldExceed == BigLess(MantissaMax, BigMulAdd(pm.mantissa, 10, NextDigit))
FirstDiscarded == ~pm.stopMantissa /\ WouldExceed
LaterDiscarded == pm.stopMantissa
HalfEvenUp == NextDigit > 5 \/ (NextDigit = 5 /\ BigOdd(pm.mantissa))
ExponentGain == pm'.exponent - pm.exponent
DiscardGain == IF pm.stopExponent THEN 0 ELSE 1
MaxRoundsUp == pm.mantissa = MantissaMax /\ HalfEvenUp

\* C4, as stated: the first discarded digit increments the mantissa by 1 iff
\* it is > 5, or == 5 with an odd retained mantissa; every later digit leaves
\* the mantissa unchanged; every discarded digit adds 1 to the exponent (net
\* 0 after the '.').
C4_EveryDiscard ==
    [][PMDigitStep =>
        /\ FirstDiscarded =>
               pm'.mantissa = IF HalfEvenUp THEN BigAddSmall(pm.mantissa, 1) ELSE pm.mantissa
        /\ LaterDiscarded => pm'.mantissa = pm.mantissa
        /\ (FirstDiscarded \/ LaterDiscarded) => ExponentGain = DiscardGain]_vars

\* C4, amended: the same, except for a first discarded digit that rounds up
\* a retained mantissa equal to the Mantissa type's maximum.
C4_DiscardRounding ==
    [][PMDigitStep =>
        /\ (FirstDiscarded /\ ~MaxRoundsUp) =>
               pm'.mantissa = IF HalfEvenUp THEN BigAddSmall(pm.mantissa, 1) ELSE pm.mantissa
        /\ LaterDiscarded => pm'.mantissa = pm.mantissa /\ pm'.stopMantissa
        /\ ((FirstDiscarded /\ ~MaxRoundsUp) \/ LaterDiscarded) =>
               ExponentGain = DiscardGain]_vars

\* a first discarded 6 rounded the mantissa up, and a later digit left it
C4_Witness ==
    /\ pc = "parseMantissaReturned"
    /\ input = <<"1","8","4","4","6","7","4","4","0","7","3","7","0","9","5","5","1","6","1",
                 "6", "9">>
    /\ result.mantissa = BigAddSmall(BigDivSmall(MantissaMax, 10), 1)
    /\ result.exponent = 2

C5_Example ==
    <<"1","8","4","4","6","7","4","4","0","7","3","7","0","9","5","5","1","6","1","5",
      "5">>

\* C5: when the retained mantissa equals the Mantissa type's maximum and the
\* first discarded digit rounds it up, the mantissa does not wrap to 0: it
\* becomes max/10, plus 1 when max % 10 + 1 >= 5, and the exponent receives
\* one increment more than for a discarded digit; "184467440737095516155"
\* gives mantissa 1844674407370955162, exponent 2.
C5_MaxFallsBack ==
    [][/\ (PMDigitStep /\ ~pm.stopMantissa /\ MaxRoundsUp) =>
              /\ pm'.mantissa # <<>>
              /\ pm'.mantissa =
                     IF BigModSmall(MantissaMax, 10) + 1 >= 5
                     THEN BigAddSmall(BigDivSmall(MantissaMax, 10), 1)
                     ELSE BigDivSmall(MantissaMax, 10)
              /\ ExponentGain = DiscardGain + 1
       /\ (input = C5_Example /\ pc' = "parseMantissaReturned") =>
              /\ result'.parsed = Len(C5_Example)
              /\ result'.mantissa =
                     BigOfDigits(<<1,8,4,4,6,7,4,4,0,7,3,7,0,9,5,5,1,6,2>>)
              /\ result'.exponent = 2]_vars

C5_Witness ==
    /\ pc = "parseMantissaReturned"
    /\ input = C5_Example
    /\ result.mantissa = BigAddSmall(BigDivSmall(MantissaMax, 10), 1)
    /\ result.exponent = 2

\* no digit follows the optional sign of t
NoDigitAfterSign(t) == Unsigned(t) = <<>> \/ Unsigned(t)[1] \notin DigitChars

\* a mantissa followed by 'e' or 'E' and nothing, or a sign alone
EndsInBareExponent(s) ==
    /\ FirstExp(s) # 0
    /\ Scanned(LiteralMantissa(s)) = LiteralMantissa(s)
    /\ ~ScanFails(LiteralMantissa(s))
    /\ LiteralExponent(s) \in {<<>>, <<"+">>, <<"-">>}

\* C6: parseExponent returns consumed length 0 whenever no digit follows the
\* optional sign, and so parseMantissaExponent fails on every literal that
\* ends in 'e'/'E' or in 'e'/'E' plus a sign.
C6_NoDigitFails ==
    /\ (pc = "parseExponentReturned" /\ NoDigitAfterSign(PESpan)) => pe.parsed = 0
    /\ (pc = "parseMantissaExponentReturned" /\ EndsInBareExponent(input))
           => number = ErrorTuple

\* an optional sign and then digits only, at least one
DigitString(t) ==
    Unsigned(t) # <<>> /\ \A k \in 1..Len(Unsigned(t)) : Unsigned(t)[k] \in DigitChars

\* C7: parseExponent returns consumed 0 for every digit string whose
\* magnitude exceeds the maximum of the Exponent type, and otherwise consumes
\* it all and returns the exact value with the sign applied.
C7_ExactOrFailure ==
    (pc = "parseExponentReturned" /\ DigitString(PESpan)) =>
        LET magnitude == BigOfDigits(DigitsOf(PESpan))
        IN  IF BigLess(BigFromInt(ExponentMax), magnitude)
            THEN pe.parsed = 0
            ELSE /\ pe.parsed = Len(PESpan)
                 /\ pe.value = IF StartsWithMinus(PESpan) THEN -BigToInt(magnitude)
                               ELSE BigToInt(magnitude)

C7_Witness ==
    /\ pc = "parseExponentReturned"
    /\ PESpan = <<"2","1","4","7","4","8","3","6","4","8">>
    /\ pe.parsed = 0

\* the character after the scanned mantissa is 'e' or 'E'
NextIsExp(s) == Len(Scanned(s)) < Len(s) /\ s[Len(Scanned(s)) + 1] \in ExpChars

\* C8: when parseMantissa succeeds, the next character is 'e' or 'E' and
\* parseExponent fails on the remainder, parseMantissaExponent returns
\* consumed 0 with (false, 0, 0), not the parsed mantissa prefix.
C8_FailurePropagates ==
    (/\ pc = "parseMantissaExponentReturned"
     /\ ~ScanFails(input) /\ NextIsExp(input)
     /\ pe.parsed = 0)
        => number = ErrorTuple

C8_Witness ==
    /\ pc = "parseMantissaExponentReturned"
    /\ ~ScanFails(input) /\ NextIsExp(input)
    /\ pe.parsed = 0
    /\ result.mantissa # <<>>
    /\ number = ErrorTuple

\* C9: no exponent computation of the lexer overflows the Exponent type.
C9_NoLexerOverflow ==
    ub \intersect {"parseMantissa", "parseExponent", "parseMantissaExponent"} = {}

Lowered(c) ==
    CASE c = "I" -> "i" [] c = "N" -> "n" [] c = "F" -> "f" [] c = "A" -> "a"
      [] c = "E" -> "e" [] OTHER -> c

\* a case-insensitive exact match of "Inf", "+Inf", "-Inf" or "NaN"
IsSpecialLiteral(s) ==
    [k \in 1..Len(s) |-> Lowered(s[k])] \in
        { <<"i", "n", "f">>, <<"+", "i", "n", "f">>, <<"-", "i", "n", "f">>,
          <<"n", "a", "n">> }

\* C10: toAnyDouble sets error iff parseMantissaExponent does not consume the
\* whole input and the input is no case-insensitive match of "Inf", "+Inf",
\* "-Inf" or "NaN"; an input consumed whole gives the converted number
\* whatever its spelling; when error is set the returned value is zero.
C10_ErrorFlag ==
    pc = "done" =>
        /\ out.error <=> (number.parsed # Len(input) /\ ~IsSpecialLiteral(input))
        /\ number.parsed = Len(input) => out.value = toIEEE754(binary)
        /\ out.error => out.value = <<>>

C10_Witness ==
    /\ pc = "done"
    /\ number.parsed \notin {0, Len(input)}
    /\ out.error
    /\ out.value = <<>>

-----------------------------------------------------------------------------
(* The correctly rounded binary64 of a decimal number, computed on exact   *)
(* integers: the reference of the claims about the conversion.             *)

\* the number of bits of a: 0 for 0, else floor(log2(a)) + 1
BigBitLen(a) ==
    IF a = <<>> THEN 0
    ELSE 16 * (Len(a) - 1)
         + (CHOOSE k \in 1..16 : 2 ^ (k - 1) <= a[Len(a)] /\ a[Len(a)] < 2 ^ k)

\* mantissa * 10^exponent = ExactNumerator / ExactDenominator
ExactNumerator(n) ==
    IF n.exponent >= 0 THEN BigMulPow(n.mantissa, 10, n.exponent) ELSE n.mantissa
ExactDenominator(n) ==
    IF n.exponent >= 0 THEN <<1>> ELSE BigMulPow(<<1>>, 10, -n.exponent)

Positive(k) == IF k > 0 THEN k ELSE 0

\* floor(log2(a / b)) for a, b > 0
FloorLog2(a, b) ==
    LET g == BigBitLen(a) - BigBitLen(b)
    IN  IF BigLeq(BigShl(b, Positive(g)), BigShl(a, Positive(-g))) THEN g ELSE g - 1

\* the bit k of the quotient of st.r by b added to st.q, and the remainder
\* left: for st.r < b * 2^(k + 1)
DivideBit(st, b, k) ==
    IF BigLeq(BigShl(b, k), st.r)
    THEN [q |-> BigAdd(st.q, BigShl(<<1>>, k)), r |-> BigSub(st.r, BigShl(b, k))]
    ELSE st

\* the bits hi, hi - 1, .. lo of the quotient, by halving the range
RECURSIVE LongDivision(_, _, _, _)
LongDivision(st, b, hi, lo) ==
    IF hi = lo THEN DivideBit(st, b, hi)
    ELSE LET mid == (hi + lo) \div 2
             upper == LongDivision(st, b, hi, mid + 1)
         IN  \* nothing left to divide: the lower bits are 0
             IF upper.r = <<>> THEN upper ELSE LongDivision(upper, b, mid, lo)

\* a / b rounded to the nearest integer, ties to even, for a < b * 2^54
NearestEven(a, b) ==
    LET d == LongDivision([q |-> <<>>, r |-> a], b, 53, 0)
        twice == BigShl(d.r, 1)
    IN  IF BigLess(b, twice) \/ (twice = b /\ BigOdd(d.q))
        THEN BigAddSmall(d.q, 1)
        ELSE d.q

SignBit(negative) == IF negative THEN BigShl(<<1>>, 63) ELSE <<>>

\* the binary64 bit pattern nearest to (-1)^negative * mantissa * 10^exponent
CorrectlyRounded(n) ==
    IF n.mantissa = <<>> THEN SignBit(n.negative)
    \* 10^309 is beyond the largest finite value
    ELSE IF n.exponent > 308 THEN BigAdd(SignBit(n.negative), BigShl(<<2047>>, 52))
    ELSE
    LET num == ExactNumerator(n)
        den == ExactDenominator(n)
        lg == FloorLog2(num, den)
        \* the exponent of the binade, the subnormals sharing that of the
        \* smallest normal numbers
        e == IF lg < -1022 THEN -1022 ELSE lg
        ulp == e - 52
        m == NearestEven(BigShl(num, Positive(-ulp)), BigShl(den, Positive(ulp)))
        carried == m = BigShl(<<1>>, 53)
        m1 == IF carried THEN BigShl(<<1>>, 52) ELSE m
        e1 == IF carried THEN e + 1 ELSE e
    IN  IF e1 > 1023
        THEN BigAdd(SignBit(n.negative), BigShl(<<2047>>, 52))
        ELSE IF BigLess(m1, BigShl(<<1>>, 52))
        THEN BigAdd(SignBit(n.negative), m1)
        ELSE BigAdd(SignBit(n.negative),
                    BigAdd(BigShl(BigFromInt(e1 + 1023), 52),
                           BigSub(m1, BigShl(<<1>>, 52))))

-----------------------------------------------------------------------------
(* Claims about the conversion.                                            *)

\* C1: for every DecimalNumber the lexer produces, convertTwobase() followed
\* by toIEEE754() returns the correctly rounded bit pattern of
\* (-1)^negative * mantissa * 10^exponent: nearest, ties to even, subnormals
\* included, infinity beyond the largest finite value.
C1_CorrectlyRounded ==
    pc = "converted" => toIEEE754(binary) = CorrectlyRounded(number)

-----------------------------------------------------------------------------
(* The fields of a bit pattern, [sign][exponentBits][mantissaBits], read   *)
(* back from the 64-bit integer.                                           *)

SignField(v) == BigBit(v, mantissaBits + exponentBits)
ExponentField(v) == BigDivPow(BigShr(v, mantissaBits), 2, exponentBits).r
MantissaField(v) == BigSub(v, BigShl(BigShr(v, mantissaBits), mantissaBits))
FitsInteger(v) == BigShr(v, MantissaTypeBits) = <<>>

\* v has exactly these three fields
HasFields(v, negative, exponentField, mantissaField) ==
    /\ FitsInteger(v)
    /\ SignField(v) = negative
    /\ ExponentField(v) = exponentField
    /\ MantissaField(v) = mantissaField

AllOnes == 2 ^ exponentBits - 1

-----------------------------------------------------------------------------
(* Claims about toAnyDouble's use of the lexer's result.                   *)

\* C11: on every input on which parseMantissaExponent returns the consumed
\* length 0, the empty input included, toAnyDouble does not hand the
\* returned triple to convertTwobase and does not return its conversion as
\* a success.
C11_FailureNotConverted ==
    number.parsed = 0 =>
        /\ pc \notin {"convertTwobase", "decrease", "increase", "increaseRoom",
                      "eliminated", "narrow", "widen", "subnormal", "converted"}
        /\ pc = "done" /\ ~out.error => IsSpecialLiteral(input)

\* C12: toDouble(error) = toAnyDouble(error) sets error on every input whose
\* result is an infinity or a NaN (exponent field all ones).
C12_NonFiniteIsError ==
    (pc = "done" /\ ExponentField(out.value) = AllOnes) => out.error

-----------------------------------------------------------------------------
(* Claims about the packer, on SpecBinary.                                 *)

IsZeroCase(b) == b.mantissa = <<>> \/ b.exponent < exponentSubnormalMin

\* C13: toIEEE754 returns the signed zero (at most the sign bit set, equal
\* to negative) whenever mantissa = 0 or exponent < exponentSubnormalMin,
\* and otherwise the signed infinity (exponent field all ones, mantissa
\* field 0) whenever exponent > exponentMax: the zero test goes first.
C13_ZeroThenInfinity ==
    pc \in {"toIEEE754Returned", "toIEEE754Aborted"} =>
        /\ IsZeroCase(binary) =>
              /\ pc = "toIEEE754Returned"
              /\ HasFields(out.value, binary.negative, 0, <<>>)
        /\ ~IsZeroCase(binary) /\ binary.exponent > exponentMax =>
              /\ pc = "toIEEE754Returned"
              /\ HasFields(out.value, binary.negative, AllOnes, <<>>)

\* a negative number with mantissa 0 and an exponent above exponentMax was
\* packed as the negative zero
C13_Witness ==
    /\ pc = "toIEEE754Returned"
    /\ binary.negative
    /\ binary.mantissa = <<>>
    /\ binary.exponent > exponentMax
    /\ out.value = BigShl(<<1>>, mantissaBits + exponentBits)

\* a mantissa that is not 0, below 2^(mantissaBits + 1), and an exponent of
\* a finite number
InFormat(b) ==
    /\ b.mantissa # <<>>
    /\ BigLess(b.mantissa, BigShl(<<1>>, mantissaBits + 1))
    /\ b.exponent \in exponentMin .. exponentMax

LeadingBit(b) == BigBit(b.mantissa, mantissaBits)

\* the pattern the claim gives: the biased exponent and the mantissa without
\* its leading bit, or the exponent field 0 and the mantissa as it is
PackedAsClaimed(b, v) ==
    IF LeadingBit(b)
    THEN /\ HasFields(v, b.negative, b.exponent + exponentBase,
                      BigSub(b.mantissa, BigShl(<<1>>, mantissaBits)))
         /\ ExponentField(v) \in 1 .. (2 ^ exponentBits - 2)
    ELSE HasFields(v, b.negative, 0, b.mantissa)

\* C14 as stated: for every mantissa in 1 .. 2^(mantissaBits + 1) - 1 and
\* every exponent in exponentMin .. exponentMax toIEEE754 returns the pattern
\* of the normal number when bit mantissaBits is set and that of the
\* subnormal otherwise.
C14_AnyExponent ==
    (pc \in {"toIEEE754Returned", "toIEEE754Aborted"} /\ InFormat(binary)) =>
        /\ pc = "toIEEE754Returned"
        /\ PackedAsClaimed(binary, out.value)

\* C14: the same, a mantissa without the leading bit being packed only with
\* the exponent exponentSubnormalBase; with another exponent the assert of
\* the subnormal branch fails.
C14_Packed ==
    /\ (pc \in {"toIEEE754Returned", "toIEEE754Aborted"} /\ InFormat(binary)
            /\ (LeadingBit(binary) \/ binary.exponent = exponentSubnormalBase)) =>
          /\ pc = "toIEEE754Returned"
          /\ PackedAsClaimed(binary, out.value)
    /\ (pc = "toIEEE754Returned" /\ InFormat(binary)) =>
          PackedAsClaimed(binary, out.value)

\* the largest subnormal was packed
C14_Witness ==
    /\ pc = "toIEEE754Returned"
    /\ ~binary.negative
    /\ binary.mantissa = BigSub(BigShl(<<1>>, mantissaBits), <<1>>)
    /\ binary.exponent = exponentSubnormalBase
    /\ out.value = binary.mantissa

\* the BinaryNumber a pattern of a finite number stands for
Unpacked(v) ==
    IF ExponentField(v) = 0
    THEN [negative |-> SignField(v), mantissa |-> MantissaField(v),
          exponent |-> exponentSubnormalBase]
    ELSE [negative |-> SignField(v),
          mantissa |-> BigAdd(MantissaField(v), BigShl(<<1>>, mantissaBits)),
          exponent |-> ExponentField(v) - exponentBase]

\* C19: number(negative, m, e) of a mantissa field m < 2^mantissaBits and an
\* exponent field 0 <= e < 2^exponentBits splits into its top bit, its next
\* exponentBits bits and its low mantissaBits bits as (negative, e, m); and
\* the fields of toIEEE754's result for a normal or subnormal BinaryNumber
\* give back its sign, exponent and mantissa.
C19_Reversible ==
    /\ (pc = "numberReturned" /\ numberAsserts(binary.mantissa)
            /\ binary.exponent \in 0 .. AllOnes) =>
          HasFields(out.value, binary.negative, binary.exponent, binary.mantissa)
    /\ (pc = "toIEEE754Returned" /\ InFormat(binary)
            /\ (LeadingBit(binary) \/ binary.exponent = exponentSubnormalBase)) =>
          Unpacked(out.value) = binary

\* a negative pattern with all exponent bits and mixed mantissa bits was built
C19_Witness ==
    /\ pc = "numberReturned"
    /\ binary.negative
    /\ binary.exponent = AllOnes
    /\ binary.mantissa = <<21845, 21845, 21845, 5>>
    /\ out.value = <<21845, 21845, 21845, 65525>>

\* C20: nan() is one fixed pattern of a quiet NaN: sign bit 0, exponent
\* field all ones, a mantissa field that is not 0 and has its most
\* significant bit, the quiet bit, set.
C20_QuietNan ==
    (pc = "done" /\ ~out.error /\ SpanEquals(input, <<"N", "a", "N">>)) =>
        /\ ~SignField(out.value)
        /\ ExponentField(out.value) = AllOnes
        /\ MantissaField(out.value) # <<>>
        /\ BigBit(out.value, mantissaBits - 1)

-----------------------------------------------------------------------------
(* Claims about the ends of the range, on SpecDecimal.                     *)

\* mantissa * 10^exponent >= 2^(exponentMax + 1), for a mantissa that is
\* not 0: 10^309 is above it, and a negative exponent leaves the value
\* below 2^64
AtLeastInfinity(n) ==
    /\ n.mantissa # <<>>
    /\ \/ n.exponent > 308
       \/ /\ n.exponent >= 0
          /\ BigLeq(BigShl(<<1>>, exponentMax + 1),
                    BigMulPow(n.mantissa, 10, n.exponent))

\* C15: every DecimalNumber with a mantissa that is not 0 and an exact
\* magnitude mantissa * 10^exponent >= 2^(exponentMax + 1) converts to the
\* infinity of its sign, with or without the short-circuit of
\* decreaseTenExponent, for every exponent of the Exponent type.
C15_OverflowIsInfinity ==
    (pc = "converted" /\ AtLeastInfinity(number)) =>
        HasFields(toIEEE754(binary), number.negative, AllOnes, <<>>)

\* the negative decimal of the smallest 20-digit mantissa at exponent 289
\* that reaches 2^1024 became the negative infinity, without short-circuit
C15_Witness ==
    /\ pc = "converted"
    /\ number.negative
    /\ number.mantissa = BigOfGroups(<<17, 976931348, 623159078>>)
    /\ number.exponent = 289
    /\ cv.tenexponent = 0 /\ cv.varmantissa # <<1>>
    /\ toIEEE754(binary) = PackInfinity(TRUE)

\* 0 < mantissa * 10^exponent < 2^(-k), and the same with <=
BelowTwoTo(n, k) ==
    /\ n.mantissa # <<>>
    /\ n.exponent < 0
    /\ BigLess(BigShl(n.mantissa, k), BigMulPow(<<1>>, 10, -n.exponent))
AtMostTwoTo(n, k) ==
    /\ n.mantissa # <<>>
    /\ n.exponent < 0
    /\ BigLeq(BigShl(n.mantissa, k), BigMulPow(<<1>>, 10, -n.exponent))

\* the decimal of the tests for the smallest positive subnormal,
\* 4.9406564584124654E-324
SmallestSubnormal(n) ==
    /\ ~n.negative
    /\ n.mantissa = BigOfGroups(<<49406564, 584124654>>)
    /\ n.exponent = -340

-----------------------------------------------------------------------------
(* Claims about the loops of the conversion.                               *)

\* the subnormal floor minus the width of the accumulator
FloorBound == exponentSubnormalMin - reducedMantissaBits

\* C17: in increaseTenExponent, whenever the next multiplication by
\* 2^twoFactor would take twoexponent below the subnormal floor minus the
\* width of the accumulator, the conversion stops at once with varmantissa 0,
\* twoexponent 0 and tenexponent 0; twoexponent never goes below that bound.
C17_StopsAtFloor ==
    [][ (/\ pc = "increaseRoom"
         /\ ~NoRoomFor(cv.varmantissa, twoFactor)
         /\ cv.twoexponent < FloorBound + twoFactor)
        => (/\ cv'.varmantissa = <<>>
            /\ cv'.twoexponent = 0
            /\ cv'.tenexponent = 0) ]_vars

\* C18: every stage terminates on every input because each iteration of each
\* loop strictly decreases a bounded counter: the characters that remain in
\* parseMantissa and parseExponent, the magnitude of the base-10 exponent
\* that remains in decreaseTenExponent and in the outer loop of
\* increaseTenExponent, and the shifts that remain in the inner loop of
\* increaseTenExponent (the accumulator grows towards its maximum) and in
\* the loops of the normalization, a varmantissa of 0 included.
C18_CounterDecreases ==
    [][ /\ (pc = "parseMantissa" /\ pc' = "parseMantissa")
            => (pm'.i = pm.i + 1 /\ pm'.i <= Len(input))
        /\ (pc = "parseExponent" /\ pc' = "parseExponent")
            => (pe'.i = pe.i + 1 /\ pe'.i <= Len(PESpan))
        /\ (pc = "decrease" /\ pc' = "decrease" /\ cv'.step = cv.step)
            => (0 <= cv'.tenexponent /\ cv'.tenexponent < cv.tenexponent)
        /\ (pc = "increaseRoom" /\ pc' = "increase")
            => (cv.tenexponent < cv'.tenexponent /\ cv'.tenexponent <= 0)
        /\ (pc = "increaseRoom" /\ pc' = "increaseRoom")
            => (/\ BigLess(cv.varmantissa, cv'.varmantissa)
                /\ BigLeq(cv'.varmantissa, ReducedMantissaMax))
        /\ (pc = "narrow" /\ pc' = "narrow")
            => BigLess(cv'.varmantissa, cv.varmantissa)
        /\ (pc = "widen" /\ pc' = "widen")
            => (/\ BigLess(cv.varmantissa, cv'.varmantissa)
                /\ BigLess(cv'.varmantissa, BigShl(<<1>>, mantissaBits + 1)))
        /\ (pc = "subnormal" /\ pc' = "subnormal")
            => (cv.twoexponent < cv'.twoexponent /\ cv'.twoexponent <= exponentMin)
      ]_vars

-----------------------------------------------------------------------------
(* Claims about the exactness of the conversion.                           *)

\* mantissa * 10^exponent is not 0 and below 2^(mantissaBits + 1), for an
\* exponent >= 0: the exponents above 15 give at least 10^16 > 2^53
SmallInteger(n) ==
    /\ n.mantissa # <<>>
    /\ n.exponent \in 0 .. 15
    /\ BigLess(BigMulPow(n.mantissa, 10, n.exponent), BigShl(<<1>>, mantissaBits + 1))

\* b.mantissa has the bit mantissaBits as its leading bit
Normalized(b) == BigBitLen(b.mantissa) = mantissaBits + 1

\* C21: for every DecimalNumber with exponent >= 0 whose exact value
\* v = mantissa * 10^exponent is not 0 and below 2^(mantissaBits + 1),
\* convertTwobase is exact and normalized: the mantissa returned has the bit
\* mantissaBits set and mantissa * 2^(exponent - mantissaBits) = v.
C21_ExactAndNormalized ==
    (pc = "converted" /\ SmallInteger(number)) =>
        /\ Normalized(binary)
        /\ binary.exponent \in 0 .. mantissaBits
        /\ BigShl(BigMulPow(number.mantissa, 10, number.exponent), mantissaBits)
             = BigShl(binary.mantissa, binary.exponent)

\* "1e15" became 10^15 = mantissa * 2^(49 - 52), after a multiplication in
\* decreaseTenExponent and the widening
C21_Witness ==
    /\ pc = "converted"
    /\ number.mantissa = <<1>>
    /\ number.exponent = 15
    /\ SmallInteger(number)
    /\ binary.exponent = 49
    /\ Normalized(binary)

-----------------------------------------------------------------------------
(* Claims about divideBy, on SpecDivide.                                   *)

\* q is the integer nearest to num / base^n, the even one of the two when
\* num is half-way between them
IsNearestEven(num, base, n, q) ==
    LET back == BigMulPow(q, base, n)
        twice == BigShl(IF BigLess(num, back) THEN BigSub(back, num)
                        ELSE BigSub(num, back), 1)
        divisor == BigMulPow(<<1>>, base, n)
    IN  /\ BigLeq(twice, divisor)
        /\ twice = divisor => ~BigOdd(q)

\* C22: divideBy(number, divisor) is the round-half-to-even division: for
\* every number >= 0 and every even divisor > 0 it leaves in number the
\* integer nearest to number / divisor, and the even one of the two
\* neighbours when the remainder is exactly divisor / 2.
C22_RoundsHalfEven ==
    [][ pc = "divideBy" => IsNearestEven(cv.number, cv.base, cv.n, cv'.number) ]_vars

-----------------------------------------------------------------------------
(* Claims about the asserts of the conversion.                             *)

\* what convertTwobase may return: (negative, 0, 0), or a mantissa in
\* 1 .. 2^(mantissaBits + 1) - 1 with an exponent >= exponentMin, below
\* 2^mantissaBits only at exponentMin
Returnable(b) ==
    \/ b.mantissa = <<>> /\ b.exponent = 0
    \/ /\ b.mantissa # <<>>
       /\ BigLess(b.mantissa, BigShl(<<1>>, mantissaBits + 1))
       /\ b.exponent >= exponentMin
       /\ BigLess(b.mantissa, BigShl(<<1>>, mantissaBits)) => b.exponent = exponentMin

\* C23 as stated: for every DecimalNumber no assertion of the pipeline
\* fails: at the end of the exponent elimination tenexponent = 0,
\* convertTwobase returns (negative, 0, 0) or a mantissa in
\* 1 .. 2^(mantissaBits + 1) - 1 with an exponent >= exponentMin, below
\* 2^mantissaBits only at exponentMin, and the asserts of toIEEE754 and
\* number() hold on what it returns.
C23_ZeroIsZeroZero ==
    /\ pc = "eliminated" => cv.tenexponent = 0
    /\ pc = "converted" =>
          /\ binary.negative = number.negative
          /\ Returnable(binary)
          /\ toIEEE754Asserts(binary)

\* what convertTwobase does return: a mantissa of 0 comes with the exponent 0
\* from "Zero is zero" and with exponentMin from the last loop, which shifts
\* the bits of a value that underflows out of the mantissa
Returned(b) ==
    \/ b.mantissa = <<>> /\ b.exponent \in {0, exponentMin}
    \/ /\ b.mantissa # <<>>
       /\ BigLess(b.mantissa, BigShl(<<1>>, mantissaBits + 1))
       /\ b.exponent >= exponentMin
       /\ BigLess(b.mantissa, BigShl(<<1>>, mantissaBits)) => b.exponent = exponentMin

\* C23: for every DecimalNumber no assertion of the pipeline fails: at the
\* end of the exponent elimination tenexponent = 0, convertTwobase returns
\* a mantissa of 0 with the exponent 0 or exponentMin, or a mantissa in
\* 1 .. 2^(mantissaBits + 1) - 1 with an exponent >= exponentMin, below
\* 2^mantissaBits only at exponentMin, and the asserts of toIEEE754 and
\* number() hold on what it returns.
C23_NoAssertFails ==
    /\ pc = "eliminated" => cv.tenexponent = 0
    /\ pc = "converted" =>
          /\ binary.negative = number.negative
          /\ Returned(binary)
          /\ toIEEE754Asserts(binary)

\* the decimal of the smallest subnormal came back as the mantissa 1 at
\* exponentMin, the case of the assert on exponentSubnormalBase
C23_Witness ==
    /\ pc = "converted"
    /\ SmallestSubnormal(number)
    /\ binary.mantissa = <<1>>
    /\ binary.exponent = exponentSubnormalBase
    /\ toIEEE754Asserts(binary)

-----------------------------------------------------------------------------
(* Claims about the arithmetic of the accumulator and of the exponents.    *)

\* C24: no multiplication of the extended accumulator wraps around: the
\* products varmantissa * 10^tenFactor of decreaseTenExponent, also after a
\* compensating division, the products varmantissa * 2^twoFactor of
\* increaseTenExponent and the products varmantissa * 2 of the normalization
\* are at most the largest ReducedMantissa, for each of the step pairs.
C24_NoWrap ==
    /\ ~cv.wrapped
    /\ (pc = "decrease" /\ cv.tenexponent >= tenFactor
            /\ ~NoRoomFor(cv.varmantissa, twoFactor))
        => BigLeq(BigMulPow(cv.varmantissa, 10, tenFactor), ReducedMantissaMax)
    /\ (pc = "increaseRoom" /\ ~NoRoomFor(cv.varmantissa, twoFactor))
        => BigLeq(BigMulPow(cv.varmantissa, 2, twoFactor), ReducedMantissaMax)
    /\ (pc = "widen" /\ CanWiden)
        => BigLeq(BigMulSmall(cv.varmantissa, 2), ReducedMantissaMax)

\* in the last instantiation of decreaseTenExponent, after compensating
\* divisions, the accumulator holds a product of more than 64 bits
C24_Witness ==
    /\ pc = "decrease"
    /\ cv.step = 4
    /\ cv.twoexponent > 0
    /\ cv.tenexponent < number.exponent
    /\ BigBitLen(cv.varmantissa) > MantissaTypeBits
    /\ ~cv.wrapped

\* C25: during convertTwobase the base-2 exponent never overflows or wraps
\* the signed Exponent type, whatever the base-10 exponent: the additions
\* of decreaseTenExponent and of the normalization and the subtractions of
\* increaseTenExponent give their exact results, within the type.
C25_ExponentNeverWraps ==
    [][ /\ cv'.twoexponent \in ExponentMin .. ExponentMax
        /\ (pc = "decrease" /\ pc' = "decrease" /\ cv'.step = cv.step)
            => cv'.twoexponent \in {cv.twoexponent, cv.twoexponent + twoFactor}
        /\ (pc = "increaseRoom" /\ pc' \in {"increaseRoom", "trap"})
            => (pc' = "increaseRoom" /\ cv'.twoexponent < cv.twoexponent)
        /\ (pc = "widen" /\ pc' = "subnormal")
            => cv'.twoexponent = cv.twoexponent + cv.position
      ]_vars

-----------------------------------------------------------------------------
(* Claims about the rounding of the normalization.                         *)

\* the number of bits the first loop of the normalization removed from the
\* mantissa of a number of exponent 0: twoexponent is then 0 + position,
\* and position started at mantissaBits
BitsRemoved(b) == b.exponent - mantissaBits

\* a number of exponent 0 whose mantissa has more than mantissaBits + 1
\* bits: the accumulator before the normalization is the mantissa itself
Narrowed(n) ==
    /\ n.exponent = 0
    /\ BigLeq(BigShl(<<1>>, mantissaBits + 1), n.mantissa)

\* C26: the normalization, which narrows the accumulator by divideBy(
\* varmantissa, 2) one bit at a time, gives the same mantissa as a single
\* round-half-to-even division of the accumulator by 2^shift, shift being
\* the number of bits removed.
C26_SingleDivision ==
    (pc = "converted" /\ Narrowed(number)) =>
        binary.mantissa =
            NearestEven(number.mantissa, BigShl(<<1>>, BitsRemoved(binary)))

-----------------------------------------------------------------------------
(* Claims about the order of the results, on SpecPair.                     *)

\* C27: the conversion is monotonic: for two non-negative DecimalNumbers a
\* and b with exact values value(a) <= value(b), the bit patterns satisfy
\* a.convertTwobase().toIEEE754() <= b.convertTwobase().toIEEE754().
C27_Monotonic ==
    (pc = "converted" /\ out.returned /\ ValueLeq(result, number)) =>
        BigLeq(out.value, toIEEE754(binary))

-----------------------------------------------------------------------------
(* Claims about the short-circuits of the conversion.                      *)

\* decreaseTenExponent is about to take "Overflow, bail out"
BailsOut ==
    /\ pc = "decrease"
    /\ cv.tenexponent >= tenFactor
    /\ NoRoomFor(cv.varmantissa, twoFactor)
    /\ cv.twoexponent + twoFactor > exponentMax

\* C28: the infinity short-circuit of decreaseTenExponent is sound: it is
\* taken only when the exact value of the number under conversion is at
\* least 2^(exponentMax + 1), so that no number whose correctly rounded
\* result is finite becomes an infinity by it.
C28_BailIsSound ==
    BailsOut =>
        /\ AtLeastInfinity(number)
        /\ CorrectlyRounded(number) = PackInfinity(number.negative)

\* the largest mantissa at the exponent TenExponentCap took the
\* short-circuit and came back as 2^mantissaBits at exponentMax + 1
C28_Witness ==
    /\ pc = "converted"
    /\ number.mantissa = MantissaMax
    /\ number.exponent = TenExponentCap
    /\ cv.varmantissa = BigShl(<<1>>, mantissaBits)
    /\ binary.exponent = exponentMax + 1
    /\ toIEEE754(binary) = PackInfinity(number.negative)

\* C29: a DecimalNumber with mantissa 0 and an exponent >= 0, however
\* large, converts to the zero of its sign: convertTwobase returns
\* (negative, 0, 0) and toIEEE754 the pattern with at most the sign bit set,
\* never an infinity.
C29_ZeroStaysZero ==
    (pc = "converted" /\ number.mantissa = <<>> /\ number.exponent >= 0) =>
        /\ binary = [negative |-> number.negative, mantissa |-> <<>>, exponent |-> 0]
        /\ toIEEE754(binary) = SignBit(number.negative)
        /\ toIEEE754(binary) # PackInfinity(number.negative)

\* -0 at the exponent TenExponentCap went through every instantiation of
\* decreaseTenExponent and gave the sign bit alone
C29_Witness ==
    /\ pc = "converted"
    /\ number.negative
    /\ number.mantissa = <<>>
    /\ number.exponent = TenExponentCap
    /\ cv.tenexponent = 0
    /\ cv.step = Len(Factors)
    /\ toIEEE754(binary) = BigShl(<<1>>, MantissaTypeBits - 1)

-----------------------------------------------------------------------------
(* Claims about the rounding of the lexer.                                 *)

\* the integer of all the digits parseMantissa read, and the number of
\* decimal places by which the returned mantissa is shifted against it
AllDigits == BigOfDigits(DigitsOf(Scanned(input)))
PlacesDropped == result.exponent + FractionDigits(Scanned(input))

\* the returned mantissa in the units of the last digit read, and the
\* digits it does not hold
Retained == BigMulPow(result.mantissa, 10, PlacesDropped)
DroppedTail == BigDivPow(AllDigits, 10, PlacesDropped).r

\* parseMantissa returned a number after discarding digits
DiscardedDigits ==
    /\ pc = "parseMantissaReturned"
    /\ result.parsed > 0
    /\ pm.stopMantissa
    /\ PlacesDropped \in 1 .. 9

\* C30: when parseMantissa discards digits, the pair (mantissa, exponent)
\* returned is the round-half-to-even rounding of the whole literal at the
\* retained precision: mantissa * 10^exponent is within half a unit of
\* 10^exponent of the exact value of all the digits, and a literal whose
\* discarded tail is a 5 followed by a digit that is not 0 is rounded up.
C30_RoundsWholeLiteral ==
    DiscardedDigits =>
        LET unit == BigMulPow(<<1>>, 10, PlacesDropped)
            distance == IF BigLess(Retained, AllDigits)
                        THEN BigSub(AllDigits, Retained)
                        ELSE BigSub(Retained, AllDigits)
            half == power(10, PlacesDropped) \div 2
        IN  /\ BigLeq(BigShl(distance, 1), unit)
            /\ (half < DroppedTail /\ DroppedTail < half + power(10, PlacesDropped - 1))
                   => BigLess(AllDigits, Retained)

====
